---- MODULE Spec2Model ----
(***************************************************************************)
(* Work/result queues, worker loop, pool supervisor, task store and        *)
(* orchestrator monitor loop of Agentic_Work_Shop.                         *)
(*                                                                         *)
(* One tuple of variables carries the whole system; each specification     *)
(* below (SpecWorker, SpecPool, SpecTasks, SpecMonitor) starts the part it *)
(* exercises and leaves the rest at its initial value.                     *)
(***************************************************************************)
EXTENDS Integers, Sequences, FiniteSets, TLC

VARIABLES
    queues,          \* Redis lists: queue name -> sequence, head = left end
    enqLog,          \* history: per queue, every item pushed, in push order
    deqLog,          \* history: per queue, every item popped, in pop order
    client_result,   \* last tuple returned to the generic queue client
    wk,              \* per worker process: position and locals of worker_node
    hist,            \* history: per worker process, items popped / results pushed
    now,             \* time.time(), in seconds
    worker_processes,  \* dashboard registry: worker id -> process, pid, start_time
    worker_health,   \* dashboard health records: worker id -> status, message
    monitoring_active, \* the flag the control loop runs under
    monitor_pc,      \* the control loop's position: "Loop", "Read" or "Sleep"
    monitor_seen,    \* the control loop's locals queue_depth and active_workers
    api_response,    \* the last response of a dashboard endpoint
    health_checked,  \* history: the last step ended with check_worker_health
    tasks,           \* .track_task/tasks.json: task id -> record
    tool_result,     \* the tuple the last task tool call returned
    selected,        \* history: the key of the task the last task_complete_node chose
    caller,          \* per concurrent caller of the task tools: position and locals
    writers,         \* the callers that have tasks.json open for writing
    status_view,     \* the tasks dict the dashboard's get_status returned last
    node,            \* the orchestrator graph's position
    state,           \* OrchestratorState of the running graph
    monitor_passes,  \* history: how often monitoring_node has run
    config,          \* the deployment: is the workspace valid, is Redis reachable
    UM,              \* the memory store: key -> value
    commands,        \* history: the tools run_tool has run as external commands
    last_tool,       \* history: the tool name of the last call of run_tool
    monitor_threads, \* the threads start_monitoring has started: position of each
    tm_queue,        \* .taskmaster/queue.json: the queued task ids, in file order
    tm_status,       \* the bridge's status dict: task id -> state
    active,          \* the bridge's active dict: task id -> thread (its position)
    launches,        \* history: the task ids main_loop has started a thread for
    main_loop        \* the bridge's main_loop: position, q and the index into q

queueVars == <<queues, enqLog, deqLog, client_result>>

workerVars == <<wk, hist>>

poolVars == <<now, worker_processes, worker_health, monitoring_active, monitor_pc,
              monitor_seen, api_response>>

sharedVars == <<caller, writers, status_view>>

storeVars == <<tasks, tool_result, selected, sharedVars>>

orchVars == <<node, state, monitor_passes>>

toolVars == <<UM, commands, last_tool>>

bridgeVars == <<monitor_threads, tm_queue, tm_status, active, launches, main_loop>>

vars == <<queueVars, workerVars, poolVars, health_checked, storeVars, orchVars, config,
          toolVars, bridgeVars>>

\* every step that is not a health check
NotAHealthCheck == health_checked' = FALSE

(***************************************************************************)
(* Bounds                                                                  *)
(***************************************************************************)
MaxProcs == 4        \* worker processes that can exist
MaxItems == 3        \* payloads the producers push onto worker_queue

Procs == 1..MaxProcs

QueueNames == {"worker_queue", "results_queue"}
Branches == {"b1", "b2"}

(***************************************************************************)
(* JSON payloads.  A queue entry is a byte string; it is modelled by what  *)
(* json.loads makes of it: text that does not parse, a JSON string, or a   *)
(* JSON object (a function from keys to values).                           *)
(***************************************************************************)
EmptyObj == [k \in {} |-> ""]

Text(t) == [kind |-> "text", text |-> t, obj |-> EmptyObj]

JsonDumpsStr(s) == [kind |-> "str", text |-> s, obj |-> EmptyObj]

JsonDumps(d) == [kind |-> "obj", text |-> "", obj |-> d]

\* json.loads raises JSONDecodeError on text that is not JSON
JsonDecodeError(p) == p.kind = "text"

EMPTY_QUEUE == Text("EMPTY_QUEUE")

\* the dict pm_node and the dashboard serialise for one sub-task
WorkItem(b) ==
    [branch |-> b, instruction |-> "instr", goal |-> "goal", target_paths |-> "paths"]

\* what a producer can put on worker_queue: well-formed work items, text that
\* is not JSON, an object without "branch", and a JSON string
WorkPayloads ==
    {JsonDumps(WorkItem(b)) : b \in Branches}
        \cup {Text("not json"),
              JsonDumps([instruction |-> "instr"]),
              JsonDumpsStr("Processing task")}

(***************************************************************************)
(* Redis list primitives                                                   *)
(***************************************************************************)
Last(s) == s[Len(s)]

Front(s) == SubSeq(s, 1, Len(s) - 1)

RECURSIVE Reverse(_)
Reverse(s) == IF s = <<>> THEN <<>> ELSE <<Last(s)>> \o Reverse(Front(s))

\* LPUSH: the new element becomes the head of the list
LPushAtTail(q, x) == q \o <<x>>

LPush(q, x) == <<x>> \o q

\* BRPOP: the element at the tail is returned and removed in one step
BRPopRestKeepsItem(q) == q

BRPopRest(q) == Front(q)

BRPopItem(q) == Last(q)

\* an entry as stored: the payload, tagged with its push number (history only)
Entry(name, payload) == [uid |-> Len(enqLog[name]) + 1, data |-> payload]

\* the effect of one push of payload onto queue name
Push(name, payload) ==
    /\ queues' = [queues EXCEPT ![name] = LPush(@, Entry(name, payload))]
    /\ enqLog' = [enqLog EXCEPT ![name] = Append(@, Entry(name, payload))]

\* the effect of one successful pop from queue name
Pop(name) ==
    /\ queues' = [queues EXCEPT ![name] = BRPopRest(@)]
    /\ deqLog' = [deqLog EXCEPT ![name] = Append(@, BRPopItem(queues[name]))]

(***************************************************************************)
(* redis_queue.py: the generic queue client                                *)
(***************************************************************************)
\* enqueue_task(queue_name, task_data)
enqueue_task(name, payload) ==
    /\ Len(enqLog[name]) < MaxItems
    /\ Push(name, payload)
    /\ UNCHANGED <<deqLog, client_result, wk, hist, poolVars, storeVars, orchVars, config,
                   toolVars, bridgeVars>>
    /\ NotAHealthCheck

\* dequeue_task(queue_name): brpop returned an element
dequeue_task(name) ==
    /\ queues[name] # <<>>
    /\ Pop(name)
    /\ client_result' = [rc |-> 0, out |-> BRPopItem(queues[name]).data]
    /\ UNCHANGED <<enqLog, wk, hist, poolVars, storeVars, orchVars, config, toolVars,
                   bridgeVars>>
    /\ NotAHealthCheck

\* dequeue_task(queue_name): brpop timed out on an empty list
dequeue_task_emptyAsFailure(name) ==
    /\ queues[name] = <<>>
    /\ client_result' = [rc |-> 1, out |-> EMPTY_QUEUE]
    /\ UNCHANGED <<queues, enqLog, deqLog, wk, hist, poolVars, storeVars, orchVars, config,
                   toolVars, bridgeVars>>
    /\ NotAHealthCheck

dequeue_task_empty(name) ==
    /\ queues[name] = <<>>
    /\ client_result' = [rc |-> 0, out |-> EMPTY_QUEUE]
    /\ UNCHANGED <<queues, enqLog, deqLog, wk, hist, poolVars, storeVars, orchVars, config,
                   toolVars, bridgeVars>>
    /\ NotAHealthCheck

\* dequeue_task(queue_name): redis.Redis or brpop raises (the backing store
\* cannot be reached); the except clause returns (1, "ERROR: ...", "")
dequeue_task_fails(name) ==
    /\ client_result' = [rc |-> 1, out |-> Text("ERROR")]
    /\ UNCHANGED <<queues, enqLog, deqLog, wk, hist, poolVars, storeVars, orchVars, config,
                   toolVars, bridgeVars>>
    /\ NotAHealthCheck

(***************************************************************************)
(* Orchistrate.py run_tool: the queue operations a node calls              *)
(***************************************************************************)
\* run_tool("enqueue_task", [queue_name, task_json]): lpush, then ENQUEUED
RunToolEnqueue(name, payload) == Push(name, payload)

\* the tuple run_tool("dequeue_task", [queue_name]) returns
RunToolDequeueResult(name) ==
    IF queues[name] # <<>>
    THEN [rc |-> 0, out |-> BRPopItem(queues[name]).data]
    ELSE [rc |-> 0, out |-> EMPTY_QUEUE]

(***************************************************************************)
(* worker.py worker_node, run in a loop by worker_process.py main          *)
(***************************************************************************)
Patches == {"", "diff_ok", "diff_rejected"}

\* apply_patch as worker.py imports it (the definition that is in force)
apply_patch(patch) ==
    IF patch = "" THEN "EMPTY_PATCH"
    ELSE IF patch = "diff_rejected" THEN "APPLY_FAIL"
    ELSE "APPLY_OK"

\* a test for the status being the word FAIL, which no status is
ContainsFAILWholeWord(status) == status = "FAIL"

\* "FAIL" in apply_status
ContainsFAIL(status) == status = "APPLY_FAIL"

\* for i in range(3)
RetryRange == 3

\* if i == 2: the attempt whose failure is reported
LastAttemptIsSecond(i) == i = 1

LastAttempt(i) == i = 2

\* the outcome of json.loads and the key lookups of lines 13-17
ParseOutcome(p) ==
    IF JsonDecodeError(p) THEN "JSONDecodeError"
    ELSE IF p.kind # "obj" THEN "TypeError"
    ELSE IF ~({"branch", "instruction"} \subseteq DOMAIN p.obj) THEN "KeyError"
    ELSE "ok"

IdleLocals == [pc |-> "Idle", branch |-> "", instruction |-> "", i |-> 0,
               patch |-> "", e |-> ""]

NoProc == [pc |-> "NoProc", branch |-> "", instruction |-> "", i |-> 0,
           patch |-> "", e |-> ""]

Exited == [pc |-> "Exited", branch |-> "", instruction |-> "", i |-> 0,
           patch |-> "", e |-> ""]

NoHist == [popped |-> <<>>, pushed |-> <<>>, calls |-> 0, fails |-> 0]

\* process.poll() is None, for process p in the process table w
IsRunning(w, p) == w[p].pc \notin {"NoProc", "Exited"}

Running(p) == IsRunning(wk, p)

\* the result dict of lines 46-51
SuccessResult(w) ==
    [branch |-> w.branch, instruction |-> w.instruction,
     status |-> "success", patch |-> w.patch]

\* the result dict of lines 59-64
FailedResult(w) ==
    [branch |-> w.branch, instruction |-> w.instruction,
     status |-> "failed", error |-> w.e]

\* the uid of the item the worker popped last
CurrentUid(p) == Last(hist[p].popped).uid

\* a worker that goes on to the checkout when the pop has timed out
WorkerIdleStartsWork(p) ==
    /\ wk[p].pc = "Idle"
    /\ queues["worker_queue"] = <<>>
    /\ wk' = [wk EXCEPT ![p].pc = "Checkout"]
    /\ UNCHANGED <<queueVars, hist, poolVars, storeVars, orchVars, config, toolVars, bridgeVars>>
    /\ NotAHealthCheck

\* lines 7-10: the pop timed out (or the payload reads EMPTY_QUEUE): stay idle
WorkerIdle(p) ==
    /\ wk[p].pc = "Idle"
    /\ queues["worker_queue"] = <<>>
    /\ RunToolDequeueResult("worker_queue").out = EMPTY_QUEUE
    /\ UNCHANGED <<queueVars, workerVars, poolVars, storeVars, orchVars, config, toolVars,
                   bridgeVars>>
    /\ NotAHealthCheck

\* lines 7-20: pop one item and parse it
WorkerDequeue(p) ==
    /\ wk[p].pc = "Idle"
    /\ queues["worker_queue"] # <<>>
    /\ Pop("worker_queue")
    /\ LET r == RunToolDequeueResult("worker_queue")
           outcome == ParseOutcome(r.out)
       IN /\ hist' = [hist EXCEPT ![p] =
                         [@ EXCEPT !.popped = Append(@, BRPopItem(queues["worker_queue"])),
                                   !.calls = 0, !.fails = 0]]
          /\ wk' = [wk EXCEPT ![p] =
                CASE r.rc # 0 \/ r.out = EMPTY_QUEUE -> IdleLocals
                  [] outcome \in {"JSONDecodeError", "KeyError"} -> IdleLocals
                  [] outcome = "TypeError" -> Exited
                  [] OTHER -> [IdleLocals EXCEPT !.pc = "Checkout",
                                                 !.branch = r.out.obj["branch"],
                                                 !.instruction = r.out.obj["instruction"]]]
    /\ UNCHANGED <<enqLog, client_result, poolVars, storeVars, orchVars, config, toolVars,
                   bridgeVars>>
    /\ NotAHealthCheck

\* line 22: run_tool("git_checkout", [branch]); its result is not looked at
WorkerCheckout(p) ==
    /\ wk[p].pc = "Checkout"
    /\ wk' = [wk EXCEPT ![p].pc = "Coder", ![p].i = 0]
    /\ UNCHANGED <<queues, enqLog, deqLog, client_result, hist, poolVars, storeVars, orchVars,
                   config, toolVars, bridgeVars>>
    /\ NotAHealthCheck

\* lines 26-36: get_llm and coder.invoke return a patch
WorkerCoder(p, patch) ==
    /\ wk[p].pc = "Coder"
    /\ wk[p].i < RetryRange
    /\ wk' = [wk EXCEPT ![p].pc = "Apply", ![p].patch = patch]
    /\ hist' = [hist EXCEPT ![p].calls = @ + 1]
    /\ UNCHANGED <<queues, enqLog, deqLog, client_result, poolVars, storeVars, orchVars,
                   config, toolVars, bridgeVars>>
    /\ NotAHealthCheck

\* lines 26-35: get_llm or coder.invoke raises
WorkerCoderRaises(p) ==
    /\ wk[p].pc = "Coder"
    /\ wk[p].i < RetryRange
    /\ wk' = [wk EXCEPT ![p].pc = "Except", ![p].e = "coder error"]
    /\ hist' = [hist EXCEPT ![p].calls = @ + 1]
    /\ UNCHANGED <<queues, enqLog, deqLog, client_result, poolVars, storeVars, orchVars,
                   config, toolVars, bridgeVars>>
    /\ NotAHealthCheck

\* lines 38-40: apply the patch; a status with FAIL raises ValueError
WorkerApply(p) ==
    /\ wk[p].pc = "Apply"
    /\ wk' = [wk EXCEPT ![p] =
            IF ContainsFAIL(apply_patch(wk[p].patch))
            THEN [@ EXCEPT !.pc = "Except", !.e = "Patch failed to apply"]
            ELSE [@ EXCEPT !.pc = "Commit"]]
    /\ UNCHANGED <<queues, enqLog, deqLog, client_result, hist, poolVars, storeVars, orchVars,
                   config, toolVars, bridgeVars>>
    /\ NotAHealthCheck

\* lines 42-43: git add and git commit; their results are not looked at
WorkerCommit(p) ==
    /\ wk[p].pc = "Commit"
    /\ wk' = [wk EXCEPT ![p].pc = "Report"]
    /\ UNCHANGED <<queues, enqLog, deqLog, client_result, hist, poolVars, storeVars, orchVars,
                   config, toolVars, bridgeVars>>
    /\ NotAHealthCheck

\* a worker that pushes the success result and goes on with the next attempt
WorkerReportSuccessThenRetries(p) ==
    /\ wk[p].pc = "Report"
    /\ RunToolEnqueue("results_queue", JsonDumps(SuccessResult(wk[p])))
    /\ hist' = [hist EXCEPT ![p].pushed =
                    Append(@, [for |-> CurrentUid(p), data |-> SuccessResult(wk[p])])]
    /\ wk' = [wk EXCEPT ![p] =
            IF wk[p].i + 1 < RetryRange
            THEN [@ EXCEPT !.pc = "Coder", !.i = @ + 1]
            ELSE IdleLocals]
    /\ UNCHANGED <<deqLog, client_result, poolVars, storeVars, orchVars, config, toolVars,
                   bridgeVars>>
    /\ NotAHealthCheck

\* lines 46-54: push the success result and return
WorkerReportSuccess(p) ==
    /\ wk[p].pc = "Report"
    /\ RunToolEnqueue("results_queue", JsonDumps(SuccessResult(wk[p])))
    /\ hist' = [hist EXCEPT ![p].pushed =
                    Append(@, [for |-> CurrentUid(p), data |-> SuccessResult(wk[p])])]
    /\ wk' = [wk EXCEPT ![p] = IdleLocals]
    /\ UNCHANGED <<deqLog, client_result, poolVars, storeVars, orchVars, config, toolVars,
                   bridgeVars>>
    /\ NotAHealthCheck

\* lines 55-57: the handler of an attempt that is not the last: next attempt
WorkerRetry(p) ==
    /\ wk[p].pc = "Except"
    /\ ~LastAttempt(wk[p].i)
    /\ wk' = [wk EXCEPT ![p] =
            IF wk[p].i + 1 < RetryRange
            THEN [@ EXCEPT !.pc = "Coder", !.i = @ + 1]
            ELSE IdleLocals]
    /\ hist' = [hist EXCEPT ![p].fails = @ + 1]
    /\ UNCHANGED <<queues, enqLog, deqLog, client_result, poolVars, storeVars, orchVars,
                   config, toolVars, bridgeVars>>
    /\ NotAHealthCheck

\* lines 55-66: the handler of the last attempt: push the failed result, return
WorkerReportFailed(p) ==
    /\ wk[p].pc = "Except"
    /\ LastAttempt(wk[p].i)
    /\ RunToolEnqueue("results_queue", JsonDumps(FailedResult(wk[p])))
    /\ hist' = [hist EXCEPT ![p].pushed =
                    Append(@, [for |-> CurrentUid(p), data |-> FailedResult(wk[p])]),
                             ![p].fails = @ + 1]
    /\ wk' = [wk EXCEPT ![p] = IdleLocals]
    /\ UNCHANGED <<deqLog, client_result, poolVars, storeVars, orchVars, config, toolVars,
                   bridgeVars>>
    /\ NotAHealthCheck

\* the worker process is killed or dies (at any point of its cycle)
WorkerCrash(p) ==
    /\ Running(p)
    /\ wk' = [wk EXCEPT ![p] = Exited]
    /\ UNCHANGED <<queues, enqLog, deqLog, client_result, hist, poolVars, storeVars, orchVars,
                   config, toolVars, bridgeVars>>
    /\ NotAHealthCheck

worker_node(p) ==
    \/ WorkerIdle(p)
    \/ WorkerDequeue(p)
    \/ WorkerCheckout(p)
    \/ \E patch \in Patches : WorkerCoder(p, patch)
    \/ WorkerCoderRaises(p)
    \/ WorkerApply(p)
    \/ WorkerCommit(p)
    \/ WorkerReportSuccess(p)
    \/ WorkerRetry(p)
    \/ WorkerReportFailed(p)

(***************************************************************************)
(* SpecWorker: a producer of arbitrary payloads, one worker process and a  *)
(* consumer of results                                                     *)
(***************************************************************************)
InitQueues ==
    /\ queues = [n \in QueueNames |-> <<>>]
    /\ enqLog = [n \in QueueNames |-> <<>>]
    /\ deqLog = [n \in QueueNames |-> <<>>]
    /\ client_result = [rc |-> 0, out |-> Text("")]

\* dashboard/app.py lines 24-29 and 786-792: empty registries, monitoring started
InitRegistry ==
    /\ now = 0
    /\ worker_processes = EmptyObj
    /\ worker_health = EmptyObj
    /\ monitoring_active = TRUE
    /\ monitor_pc = "Loop"
    /\ monitor_seen = [queue_depth |-> 0, active_workers |-> 0]
    /\ api_response = [op |-> "", worker_id |-> 0, code |-> 0]
    /\ health_checked = FALSE
    /\ config = [workspace_valid |-> TRUE, redis_reachable |-> TRUE]

\* the processes that call the task tools at the same time
Callers == {1, 2}

\* a caller that is in no task tool: its last call, the store it loaded and
\* the tuple the call returned
IdleCaller == [pc |-> "idle", op |-> "", value |-> "", tasks |-> EmptyObj,
               result |-> [rc |-> 0, out |-> ""]]

MaxThreads == 3      \* threads start_monitoring can start

ThreadIds == 1..MaxThreads

\* dashboard/app.py line 792: start_monitoring() has started the first thread;
\* taskmaster_bridge.py lines 45-46: main_loop has not run yet
InitThreads ==
    /\ monitor_threads = [t \in ThreadIds |-> IF t = 1 THEN "Loop" ELSE "NoThread"]
    /\ tm_queue = <<>>
    /\ tm_status = EmptyObj
    /\ active = EmptyObj
    /\ launches = {}
    /\ main_loop = [pc |-> "Load", q |-> <<>>, k |-> 1]

\* no tasks file yet (load_tasks returns {})
InitStore ==
    /\ InitThreads
    /\ tasks = EmptyObj
    /\ tool_result = [rc |-> 0, out |-> ""]
    /\ selected = "None"
    /\ UM = EmptyObj
    /\ commands = <<>>
    /\ last_tool = ""
    /\ caller = [c \in Callers |-> IdleCaller]
    /\ writers = {}
    /\ status_view = EmptyObj

\* run_manager's initial_state, before the graph's entry point
InitOrch ==
    /\ node = "plan"
    /\ state = [sub_tasks |-> <<>>, iterations |-> 0, last_result |-> EmptyObj]
    /\ monitor_passes = 0

InitWorker ==
    /\ InitQueues
    /\ InitRegistry
    /\ InitStore
    /\ InitOrch
    /\ wk = [p \in Procs |-> IF p = 1 THEN IdleLocals ELSE NoProc]
    /\ hist = [p \in Procs |-> NoHist]

NextWorker ==
    \/ \E payload \in WorkPayloads : enqueue_task("worker_queue", payload)
    \/ dequeue_task("results_queue")
    \/ dequeue_task_empty("results_queue")
    \/ worker_node(1)

SpecWorker == InitWorker /\ [][NextWorker]_vars

(***************************************************************************)
(* SpecQueue: producers of work items, every worker process running, and a *)
(* consumer of results, in any interleaving                                *)
(***************************************************************************)
QueueWorkers == {1, 2}

InitQueue ==
    /\ InitQueues
    /\ InitRegistry
    /\ InitStore
    /\ InitOrch
    /\ wk = [p \in Procs |-> IF p \in QueueWorkers THEN IdleLocals ELSE NoProc]
    /\ hist = [p \in Procs |-> NoHist]

NextQueue ==
    \/ \E b \in Branches : enqueue_task("worker_queue", JsonDumps(WorkItem(b)))
    \/ dequeue_task("results_queue")
    \/ \E p \in QueueWorkers :
          \/ WorkerIdle(p)
          \/ WorkerDequeue(p)
          \/ WorkerCheckout(p)
          \/ \E patch \in {"diff_ok", "diff_rejected"} : WorkerCoder(p, patch)
          \/ WorkerApply(p)
          \/ WorkerCommit(p)
          \/ WorkerReportSuccess(p)
          \/ WorkerRetry(p)
          \/ WorkerReportFailed(p)

SpecQueue == InitQueue /\ [][NextQueue]_vars

(***************************************************************************)
(* SpecClient: callers of the two dequeue operations (redis_queue.py and   *)
(* run_tool) on both queues, a backing store that can fail, and producers  *)
(***************************************************************************)
\* run_tool("dequeue_task", [queue_name]) as a step of its caller: brpop with
\* timeout=5; when brpop raises, the exception leaves run_tool and there is
\* no tuple (shown as rc -1)
run_tool_dequeue_task(name, redisFails) ==
    /\ IF redisFails
       THEN /\ client_result' = [rc |-> -1, out |-> Text("ConnectionError")]
            /\ UNCHANGED <<queues, deqLog>>
       ELSE /\ client_result' = RunToolDequeueResult(name)
            /\ IF queues[name] # <<>> THEN Pop(name) ELSE UNCHANGED <<queues, deqLog>>
    /\ UNCHANGED <<enqLog, wk, hist, poolVars, storeVars, orchVars, config, toolVars,
                   bridgeVars>>
    /\ NotAHealthCheck

\* what the producers of SpecClient push: a work item, and the text that the
\* empty signal is made of
ClientPayloads == {JsonDumps(WorkItem("b1")), EMPTY_QUEUE}

InitClient ==
    /\ InitQueues
    /\ InitRegistry
    /\ InitStore
    /\ InitOrch
    /\ wk = [p \in Procs |-> NoProc]
    /\ hist = [p \in Procs |-> NoHist]

NextClient ==
    \/ \E name \in QueueNames, payload \in ClientPayloads : enqueue_task(name, payload)
    \/ \E name \in QueueNames : dequeue_task(name)
    \/ \E name \in QueueNames : dequeue_task_empty(name)
    \/ \E name \in QueueNames : dequeue_task_fails(name)
    \/ \E name \in QueueNames, redisFails \in BOOLEAN :
          run_tool_dequeue_task(name, redisFails)

SpecClient == InitClient /\ [][NextClient]_vars

(***************************************************************************)
(* dashboard/app.py: the pool supervisor                                   *)
(***************************************************************************)
WORKER_TIMEOUT == 300

MAX_WORKERS == 3

MaxTime == 330       \* the clock stops here

\* time.sleep(30) at the end of every pass of monitor_queues
SleepInterval == 30

\* redis imported at start-up
redis_available == TRUE

\* worker_id = f"worker_{int(time.time())}": one id per second
WorkerId(t) == t

\* d[k] = v on a dict
DictPut(d, k, v) == [x \in DOMAIN d \cup {k} |-> IF x = k THEN v ELSE d[x]]

FreePids == {p \in Procs : wk[p].pc = "NoProc"}

Min(S) == CHOOSE x \in S : \A y \in S : x <= y

\* subprocess.Popen raises when the operating system has no process to give
PopenRaises(popenFails) == popenFails \/ FreePids = {}

\* the process table after spawn_worker's Popen
SpawnedProcs(popenFails) ==
    IF PopenRaises(popenFails) THEN wk
    ELSE [wk EXCEPT ![Min(FreePids)] = IdleLocals]

\* the registry after spawn_worker (lines 266-284)
SpawnedRegistryBeforePopen(popenFails) ==
    DictPut(worker_processes, WorkerId(now),
            [process |-> IF FreePids = {} THEN MaxProcs ELSE Min(FreePids),
             pid |-> IF FreePids = {} THEN MaxProcs ELSE Min(FreePids),
             start_time |-> now])

\* a spawn that starts the process and stores no record
SpawnedRegistryUnrecorded(popenFails) == worker_processes

SpawnedRegistry(popenFails) ==
    IF PopenRaises(popenFails) THEN worker_processes
    ELSE DictPut(worker_processes, WorkerId(now),
                 [process |-> Min(FreePids), pid |-> Min(FreePids), start_time |-> now])

\* info.get('last_heartbeat', info['start_time']): nothing stores a heartbeat
LastHeartbeat(info) == info.start_time

\* current_time - last_heartbeat
TimeSinceHeartbeatSwapped(info, t) == LastHeartbeat(info) - t

TimeSinceHeartbeat(info, t) == t - LastHeartbeat(info)

\* the health record check_worker_health leaves for worker w (lines 717-741),
\* given the process table procs, the registry reg and the records health
\* (its last_check field, the time of the check, is left out)
HealthRecord(procs, reg, health, w, t) ==
    IF ~IsRunning(procs, reg[w].process)
    THEN IF w \notin DOMAIN health
         THEN [status |-> "stopped", message |-> 0]
         ELSE health[w]
    ELSE IF TimeSinceHeartbeat(reg[w], t) > WORKER_TIMEOUT
         THEN [status |-> "timeout", last_check |-> t,
               message |-> TimeSinceHeartbeat(reg[w], t)]
         ELSE [status |-> "healthy", message |-> 0]

\* worker_health after check_worker_health()
check_worker_health(procs, reg, health, t) ==
    [w \in DOMAIN health \cup DOMAIN reg |->
        IF w \in DOMAIN reg THEN HealthRecord(procs, reg, health, w, t) ELSE health[w]]

\* len(worker_processes) < MAX_WORKERS
PoolHasRoomOffByOne(n) == n <= MAX_WORKERS

PoolHasRoom(n) == n < MAX_WORKERS

queue_depth == Len(queues["worker_queue"])

active_workers ==
    Cardinality({w \in DOMAIN worker_processes : Running(worker_processes[w].process)})

pool_size == Cardinality(DOMAIN worker_processes)

\* the scale-up conditions of lines 758 and 761
ScaleUpWheneverQueued == queue_depth > 0 /\ PoolHasRoom(pool_size)

ScaleUp ==
    \/ queue_depth > 0 /\ active_workers = 0 /\ PoolHasRoom(pool_size)
    \/ queue_depth > 2 /\ active_workers < 2 /\ PoolHasRoom(pool_size)

\* one pass of monitor_queues that spawns nothing, up to its sleep
MonitorTick ==
    /\ monitoring_active
    /\ redis_available
    /\ monitor_pc = "Loop"
    /\ ~ScaleUp
    /\ monitor_pc' = "Sleep"
    /\ worker_health' = check_worker_health(wk, worker_processes, worker_health, now)
    /\ health_checked' = TRUE
    /\ UNCHANGED <<queueVars, workerVars, now, worker_processes, monitoring_active, monitor_seen,
                   api_response, storeVars, orchVars, config, toolVars, bridgeVars>>

\* one pass of monitor_queues that calls spawn_worker().  Popen may raise;
\* raised: an exception leaves spawn_worker (jsonify has no application in
\* the monitor thread), the pass ends in the except clause and the health
\* check is skipped.
MonitorSpawnTick(popenFails, raised) ==
    /\ monitoring_active
    /\ redis_available
    /\ monitor_pc = "Loop"
    /\ ScaleUp
    /\ monitor_pc' = "Sleep"
    /\ wk' = SpawnedProcs(popenFails)
    /\ worker_processes' = SpawnedRegistry(popenFails)
    /\ IF raised
       THEN UNCHANGED worker_health /\ health_checked' = FALSE
       ELSE /\ worker_health' =
                 check_worker_health(SpawnedProcs(popenFails),
                                     SpawnedRegistry(popenFails), worker_health, now)
            /\ health_checked' = TRUE
    /\ UNCHANGED <<queueVars, hist, now, monitoring_active, monitor_seen, api_response, storeVars,
                   orchVars, config, toolVars, bridgeVars>>

\* the sleep that ends a pass of monitor_queues, in the try or in the except
MonitorSleep(d) ==
    /\ monitor_pc = "Sleep"
    /\ now + d <= MaxTime
    /\ now' = now + d
    /\ monitor_pc' = "Loop"
    /\ NotAHealthCheck
    /\ UNCHANGED <<queueVars, workerVars, worker_processes, worker_health,
                   monitoring_active, monitor_seen, api_response, storeVars, orchVars,
                   config, toolVars, bridgeVars>>

\* health_status as get_worker_details and get_worker_health report it
ReportedHealth(w) ==
    IF w \in DOMAIN worker_health THEN worker_health[w].status ELSE "unknown"

(***************************************************************************)
(* SpecPool: the control loop on its own thread, the clock, producers and  *)
(* consumers of worker_queue, and worker processes that exit               *)
(***************************************************************************)
InitPool ==
    /\ InitQueues
    /\ InitRegistry
    /\ InitStore
    /\ InitOrch
    /\ wk = [p \in Procs |-> NoProc]
    /\ hist = [p \in Procs |-> NoHist]

NextPool ==
    \/ MonitorTick
    \/ \E popenFails, raised \in BOOLEAN : MonitorSpawnTick(popenFails, raised)
    \/ MonitorSleep(SleepInterval)
    \/ enqueue_task("worker_queue", JsonDumps(WorkItem("b1")))
    \/ dequeue_task("worker_queue")
    \/ \E p \in Procs : WorkerCrash(p)

SpecPool == InitPool /\ [][NextPool]_vars

(***************************************************************************)
(* dashboard/app.py: the control surface (spawn and stop endpoints)        *)
(***************************************************************************)
\* del d[k] on a dict
DictDel(d, k) == [x \in DOMAIN d \ {k} |-> d[x]]

\* get_worker_current_task (lines 228-239): a text made from the depth of
\* worker_queue (the number it holds is left out), never the item the
\* worker holds
get_worker_current_task(worker_id) ==
    IF redis_available /\ queue_depth > 0
    THEN "Processing task"
    ELSE "Idle - waiting for tasks"

\* the body of spawn_worker's answer when Popen has succeeded (line 287)
spawn_worker_response ==
    [success |-> TRUE, worker_id |-> WorkerId(now), pid |-> Min(FreePids)]

\* GET /api/workers (lines 356-371): one entry per record of the registry
get_workers(procs, reg) ==
    {[id |-> w, pid |-> reg[w].pid,
      status |-> IF IsRunning(procs, reg[w].process) THEN "active" ELSE "stopped"] :
        w \in DOMAIN reg}

\* POST /api/spawn-worker (lines 262-290): no test of the pool size
spawn_worker(popenFails) ==
    /\ wk' = SpawnedProcs(popenFails)
    /\ worker_processes' = SpawnedRegistry(popenFails)
    /\ api_response' = [op |-> "spawn_worker", worker_id |-> WorkerId(now),
                        code |-> IF PopenRaises(popenFails) THEN 500 ELSE 200]
    /\ NotAHealthCheck
    /\ UNCHANGED <<queueVars, hist, now, worker_health, monitoring_active, monitor_seen, monitor_pc,
                   storeVars, orchVars, config, toolVars, bridgeVars>>

\* process.terminate(); process.wait(timeout=5) on a running process: it
\* exits in time, or wait raises TimeoutExpired
TerminateAndWait(p, exits) ==
    IF Running(p) /\ exits THEN [wk EXCEPT ![p] = Exited] ELSE wk

TimeoutExpired(p, exits) == Running(p) /\ ~exits

\* POST /api/stop-worker (lines 292-313)
stop_worker(worker_id, exits) ==
    /\ IF worker_id \notin DOMAIN worker_processes
       THEN /\ api_response' = [op |-> "stop_worker", worker_id |-> worker_id,
                                code |-> 404]
            /\ UNCHANGED <<wk, worker_processes>>
       ELSE /\ wk' = TerminateAndWait(worker_processes[worker_id].process, exits)
            /\ IF TimeoutExpired(worker_processes[worker_id].process, exits)
               THEN /\ api_response' = [op |-> "stop_worker",
                                        worker_id |-> worker_id, code |-> 500]
                    /\ UNCHANGED worker_processes
               ELSE /\ api_response' = [op |-> "stop_worker",
                                        worker_id |-> worker_id, code |-> 200]
                    /\ worker_processes' = DictDel(worker_processes, worker_id)
    /\ NotAHealthCheck
    /\ UNCHANGED <<queueVars, hist, now, worker_health, monitoring_active, monitor_seen, monitor_pc,
                   storeVars, orchVars, config, toolVars, bridgeVars>>

\* POST /api/stop-worker-revert (lines 315-354)
stop_worker_revert(worker_id, exits) ==
    /\ IF worker_id \notin DOMAIN worker_processes
       THEN /\ api_response' = [op |-> "stop_worker_revert",
                                worker_id |-> worker_id, code |-> 404]
            /\ UNCHANGED <<wk, worker_processes, worker_health, queues, enqLog>>
       ELSE /\ wk' = TerminateAndWait(worker_processes[worker_id].process, exits)
            /\ IF TimeoutExpired(worker_processes[worker_id].process, exits)
               THEN /\ api_response' = [op |-> "stop_worker_revert",
                                        worker_id |-> worker_id, code |-> 500]
                    /\ UNCHANGED <<worker_processes, worker_health, queues, enqLog>>
               ELSE /\ api_response' = [op |-> "stop_worker_revert",
                                        worker_id |-> worker_id, code |-> 200]
                    /\ IF get_worker_current_task(worker_id) # "Idle - waiting for tasks"
                       THEN Push("worker_queue",
                                 JsonDumpsStr(get_worker_current_task(worker_id)))
                       ELSE UNCHANGED <<queues, enqLog>>
                    /\ worker_health' = DictDel(worker_health, worker_id)
                    /\ worker_processes' = DictDel(worker_processes, worker_id)
    /\ NotAHealthCheck
    /\ UNCHANGED <<deqLog, client_result, hist, now, monitoring_active, monitor_seen, monitor_pc,
                   storeVars, orchVars, config, toolVars, bridgeVars>>

(***************************************************************************)
(* SpecControl: spawn_worker and stop_worker called in any order next to  *)
(* the control loop during its first passes, and a producer of work items  *)
(***************************************************************************)
MaxControlTime == 90   \* the control loop's last pass starts here

NextControl ==
    \/ MonitorTick
    \/ \E popenFails, raised \in BOOLEAN : MonitorSpawnTick(popenFails, raised)
    \/ now < MaxControlTime /\ MonitorSleep(SleepInterval)
    \/ \E popenFails \in BOOLEAN : spawn_worker(popenFails)
    \/ \E worker_id \in DOMAIN worker_processes \cup {WorkerId(now)}, exits \in BOOLEAN :
          stop_worker(worker_id, exits)
    \/ enqueue_task("worker_queue", JsonDumps(WorkItem("b1")))

SpecControl == InitPool /\ [][NextControl]_vars

(***************************************************************************)
(* SpecRevert: a producer of work items, spawned workers that pop them,    *)
(* and stop_worker_revert                                                  *)
(***************************************************************************)
NextRevert ==
    \/ \E popenFails \in BOOLEAN : spawn_worker(popenFails)
    \/ \E b \in Branches : enqueue_task("worker_queue", JsonDumps(WorkItem(b)))
    \/ \E p \in Procs : WorkerDequeue(p)
    \/ \E worker_id \in DOMAIN worker_processes \cup {WorkerId(now)}, exits \in BOOLEAN :
          stop_worker_revert(worker_id, exits)

SpecRevert == InitPool /\ [][NextRevert]_vars

(***************************************************************************)
(* The control loop as a thread next to the request handlers: a pass reads *)
(* the queue depth and the registry into locals (lines 754-755) and uses   *)
(* them later (lines 758-766).  No lock is taken by the loop or by the     *)
(* endpoints, so a handler can run in between.  MonitorTick and            *)
(* MonitorSpawnTick above are the passes in which no handler does.         *)
(***************************************************************************)
\* lines 754-755: queue_depth and active_workers are read into locals
MonitorRead ==
    /\ monitoring_active
    /\ redis_available
    /\ monitor_pc = "Loop"
    /\ monitor_seen' = [queue_depth |-> queue_depth, active_workers |-> active_workers]
    /\ monitor_pc' = "Read"
    /\ NotAHealthCheck
    /\ UNCHANGED <<queueVars, workerVars, now, worker_processes, worker_health,
                   monitoring_active, api_response, storeVars, orchVars, config,
                   toolVars, bridgeVars>>

\* the conditions of lines 758 and 761 on the locals; len(worker_processes)
\* is read when the condition is evaluated
ScaleUpSeen ==
    \/ /\ monitor_seen.queue_depth > 0
       /\ monitor_seen.active_workers = 0
       /\ PoolHasRoom(pool_size)
    \/ /\ monitor_seen.queue_depth > 2
       /\ monitor_seen.active_workers < 2
       /\ PoolHasRoom(pool_size)

\* lines 758-767: the rest of the pass, up to its sleep
MonitorDecide(popenFails, raised) ==
    /\ monitor_pc = "Read"
    /\ monitor_pc' = "Sleep"
    /\ IF ScaleUpSeen
       THEN /\ wk' = SpawnedProcs(popenFails)
            /\ worker_processes' = SpawnedRegistry(popenFails)
            /\ IF raised
               THEN UNCHANGED worker_health /\ health_checked' = FALSE
               ELSE /\ worker_health' =
                         check_worker_health(SpawnedProcs(popenFails),
                                             SpawnedRegistry(popenFails),
                                             worker_health, now)
                    /\ health_checked' = TRUE
       ELSE /\ worker_health' =
                 check_worker_health(wk, worker_processes, worker_health, now)
            /\ health_checked' = TRUE
            /\ UNCHANGED <<wk, worker_processes>>
    /\ UNCHANGED <<queueVars, hist, now, monitoring_active, monitor_seen, api_response,
                   storeVars, orchVars, config, toolVars, bridgeVars>>

(***************************************************************************)
(* SpecRace: the control loop's thread, the spawn and stop endpoints and a *)
(* producer of work items, interleaved at the loop's reads                 *)
(***************************************************************************)
NextRace ==
    \/ MonitorRead
    \/ \E popenFails, raised \in BOOLEAN : MonitorDecide(popenFails, raised)
    \/ now < MaxControlTime /\ MonitorSleep(SleepInterval)
    \/ \E popenFails \in BOOLEAN : spawn_worker(popenFails)
    \/ \E worker_id \in DOMAIN worker_processes \cup {WorkerId(now)}, exits \in BOOLEAN :
          stop_worker(worker_id, exits)
    \/ enqueue_task("worker_queue", JsonDumps(WorkItem("b1")))

SpecRace == InitPool /\ [][NextRace]_vars

(***************************************************************************)
(* Start-up.  config says whether ORCHESTRATOR_WORKSPACE names a directory *)
(* and whether the Redis server can be reached; the specifications above   *)
(* run with both in order.                                                 *)
(***************************************************************************)
\* a process that has been started and is at the top of main()
MainLocals == [IdleLocals EXCEPT !.pc = "Main"]

\* subprocess.Popen(['python', worker_script], ...): process p is started
Popen(p) ==
    /\ wk[p].pc = "NoProc"
    /\ wk' = [wk EXCEPT ![p] = MainLocals]
    /\ NotAHealthCheck
    /\ UNCHANGED <<queueVars, hist, poolVars, storeVars, orchVars, config, toolVars, bridgeVars>>

\* worker_process.py main, lines 9-15: return when the workspace is not set
\* or is no directory, else go on to the loop over worker_node
worker_process_main(p) ==
    /\ wk[p].pc = "Main"
    /\ wk' = [wk EXCEPT ![p] = IF config.workspace_valid THEN IdleLocals ELSE Exited]
    /\ NotAHealthCheck
    /\ UNCHANGED <<queueVars, hist, poolVars, storeVars, orchVars, config, toolVars, bridgeVars>>

\* worker.py line 7 while Redis cannot be reached: brpop raises inside
\* run_tool, nothing catches it, the worker process ends
WorkerDequeueRaises(p) ==
    /\ wk[p].pc = "Idle"
    /\ ~config.redis_reachable
    /\ wk' = [wk EXCEPT ![p] = Exited]
    /\ NotAHealthCheck
    /\ UNCHANGED <<queueVars, hist, poolVars, storeVars, orchVars, config, toolVars, bridgeVars>>

\* a pass of monitor_queues while Redis cannot be reached: redis was
\* imported, so redis_available is True; llen raises, and the except clause
\* (lines 769-771) prints the error and sleeps
MonitorFailedPass ==
    /\ monitoring_active
    /\ redis_available
    /\ ~config.redis_reachable
    /\ monitor_pc = "Loop"
    /\ monitor_pc' = "Sleep"
    /\ NotAHealthCheck
    /\ UNCHANGED <<queueVars, workerVars, now, worker_processes, worker_health,
                   monitoring_active, monitor_seen, api_response, storeVars, orchVars,
                   config, toolVars, bridgeVars>>

(***************************************************************************)
(* SpecStartup: any deployment; worker processes are started, a producer   *)
(* fills worker_queue, and the dashboard has called start_monitoring       *)
(***************************************************************************)
StartupWorkers == {1, 2}

InitStartup ==
    /\ InitQueues
    /\ now = 0
    /\ worker_processes = EmptyObj
    /\ worker_health = EmptyObj
    /\ monitoring_active = TRUE
    /\ monitor_pc = "Loop"
    /\ monitor_seen = [queue_depth |-> 0, active_workers |-> 0]
    /\ api_response = [op |-> "", worker_id |-> 0, code |-> 0]
    /\ health_checked = FALSE
    /\ config \in [workspace_valid : BOOLEAN, redis_reachable : BOOLEAN]
    /\ InitStore
    /\ InitOrch
    /\ wk = [p \in Procs |-> NoProc]
    /\ hist = [p \in Procs |-> NoHist]

NextStartup ==
    \/ \E p \in StartupWorkers : Popen(p)
    \/ \E p \in StartupWorkers : worker_process_main(p)
    \/ \E p \in StartupWorkers : WorkerDequeueRaises(p)
    \/ \E p \in StartupWorkers : config.redis_reachable /\ WorkerDequeue(p)
    \/ config.redis_reachable /\ enqueue_task("worker_queue", JsonDumps(WorkItem("b1")))
    \/ config.redis_reachable /\ MonitorTick
    \/ MonitorFailedPass
    \/ MonitorSleep(SleepInterval)

SpecStartup == InitStartup /\ [][NextStartup]_vars

(***************************************************************************)
(* Orchistrate.py: the Task Store (.track_task/tasks.json)                 *)
(***************************************************************************)
MaxTasks == 3        \* task ids in use

IdPool == <<"a", "b", "c", "d">>

TaskIds == {IdPool[i] : i \in 1..MaxTasks}

MaxDeps == 1         \* ids in a dependency list

MaxRenames == 1      \* records whose id field has been overwritten

\* the dependency lists task_create is called with
DepLists == {deps \in SUBSET TaskIds : Cardinality(deps) <= MaxDeps}

\* the statuses of the life cycle
Statuses == {"pending", "in_progress", "completed", "failed"}

\* the status values task_update is called with: the three that callers
\* pass, and one string that is no status
StatusValues == {"pending", "completed", "failed", "bogus"}

\* the records other than task_id whose id field is no longer their key
Renamed(task_id) == {k \in DOMAIN tasks \ {task_id} : tasks[k].id # k}

\* the record task_create stores (lines 206-214); created_at is the position
\* in the file, which is the order task_list reads the records in
NewTask(task_id, deps) ==
    [id |-> task_id, status |-> "pending", dependencies |-> deps,
     created_at |-> Cardinality(DOMAIN tasks) + 1]

\* run_tool("task_create", [task_id, title, desc, deps_json])
task_createOverwrites(task_id, deps) ==
    /\ tasks' = DictPut(tasks, task_id,
                        IF task_id \in DOMAIN tasks
                        THEN [NewTask(task_id, deps) EXCEPT
                                 !.created_at = tasks[task_id].created_at]
                        ELSE NewTask(task_id, deps))
    /\ tool_result' = [rc |-> 0, out |-> "CREATED"]
    /\ selected' = "None"
    /\ NotAHealthCheck
    /\ UNCHANGED <<queueVars, workerVars, poolVars, orchVars, sharedVars, config, toolVars,
                   bridgeVars>>

task_create(task_id, deps) ==
    /\ IF task_id \in DOMAIN tasks
       THEN /\ tool_result' = [rc |-> 1, out |-> "TASK_EXISTS"]
            /\ UNCHANGED tasks
       ELSE /\ tasks' = DictPut(tasks, task_id, NewTask(task_id, deps))
            /\ tool_result' = [rc |-> 0, out |-> "CREATED"]
    /\ selected' = "None"
    /\ NotAHealthCheck
    /\ UNCHANGED <<queueVars, workerVars, poolVars, orchVars, sharedVars, config, toolVars,
                   bridgeVars>>

\* the store after tasks[task_id][field] = value
UpdatedOrInserted(ts, task_id, field, value) ==
    IF task_id \in DOMAIN ts
    THEN [ts EXCEPT ![task_id] = [@ EXCEPT ![field] = value]]
    ELSE DictPut(ts, task_id, [NewTask(task_id, {}) EXCEPT ![field] = value])

Updated(ts, task_id, field, value) ==
    IF task_id \in DOMAIN ts
    THEN [ts EXCEPT ![task_id] = [@ EXCEPT ![field] = value]]
    ELSE ts

\* run_tool("task_update", [task_id, field, value])
task_update(task_id, field, value) ==
    /\ tasks' = Updated(tasks, task_id, field, value)
    /\ tool_result' = IF task_id \in DOMAIN tasks
                      THEN [rc |-> 0, out |-> "UPDATED"]
                      ELSE [rc |-> 1, out |-> "TASK_NOT_FOUND"]
    /\ selected' = "None"
    /\ NotAHealthCheck
    /\ UNCHANGED <<queueVars, workerVars, poolVars, orchVars, sharedVars, config, toolVars,
                   bridgeVars>>

\* the key of the record stored n-th
KeyAt(ts, n) == CHOOSE k \in DOMAIN ts : ts[k].created_at = n

\* run_tool("task_list", [status_filter]): the records with that status, in
\* the order of the file; a record is named by the key it is stored under
task_list(ts, status_filter) ==
    SelectSeq([n \in 1..Cardinality(DOMAIN ts) |-> KeyAt(ts, n)],
              LAMBDA k : ts[k].status = status_filter)

\* {t["id"] for t in task_list("completed")}
completed_ids(ts) ==
    {ts[task_list(ts, "completed")[n]].id : n \in 1..Len(task_list(ts, "completed"))}

\* all(d in completed_ids for d in t["dependencies"])
DepsCompleted(ts, k) == \A d \in ts[k].dependencies : d \in completed_ids(ts)

\* next((t for t in pending if all(...)), None)
next_task(ts) ==
    LET eligible == SelectSeq(task_list(ts, "pending"), LAMBDA k : DepsCompleted(ts, k))
    IN IF eligible = <<>> THEN "None" ELSE Head(eligible)

\* task_complete_node with current_task_id = cur; finalize says whether
\* test_result is PASS and the plan holds FINALIZE
task_complete_node(cur, finalize) ==
    /\ IF cur # "" /\ finalize
       THEN /\ tasks' = Updated(tasks, cur, "status", "completed")
            /\ tool_result' = [rc |-> 0, out |-> "LIST"]
            /\ selected' = next_task(Updated(tasks, cur, "status", "completed"))
       ELSE /\ selected' = "None"
            /\ UNCHANGED <<tasks, tool_result>>
    /\ NotAHealthCheck
    /\ UNCHANGED <<queueVars, workerVars, poolVars, orchVars, sharedVars, config, toolVars,
                   bridgeVars>>

(***************************************************************************)
(* SpecTasks: callers of the task tools and of task_complete_node          *)
(***************************************************************************)
InitTasks ==
    /\ InitQueues
    /\ InitRegistry
    /\ InitStore
    /\ InitOrch
    /\ wk = [p \in Procs |-> NoProc]
    /\ hist = [p \in Procs |-> NoHist]

NextTasks ==
    \/ \E task_id \in TaskIds, deps \in DepLists : task_create(task_id, deps)
    \/ \E task_id \in TaskIds, value \in StatusValues :
          task_update(task_id, "status", value)
    \/ \E task_id \in TaskIds, value \in TaskIds :
          /\ Cardinality(Renamed(task_id)) < MaxRenames
          /\ task_update(task_id, "id", value)
    \/ \E cur \in TaskIds \cup {""}, finalize \in BOOLEAN :
          task_complete_node(cur, finalize)

SpecTasks == InitTasks /\ [][NextTasks]_vars

(***************************************************************************)
(* SpecStore: task_create and status writes only, on records without       *)
(* dependencies                                                            *)
(***************************************************************************)
NextStore ==
    \/ \E task_id \in TaskIds : task_create(task_id, {})
    \/ \E task_id \in TaskIds, value \in StatusValues :
          task_update(task_id, "status", value)

SpecStore == InitTasks /\ [][NextStore]_vars

(***************************************************************************)
(* The Task Store under concurrent callers.  A task tool is load_tasks,    *)
(* a change of the loaded dict and save_tasks; save_tasks opens the file   *)
(* with mode "w", which empties it, json.dump writes it piece by piece,    *)
(* and the file is complete when it is closed.  No lock is taken.          *)
(***************************************************************************)
\* the task id a caller works on: the callers work on different ids
CallerTask(c) == IdPool[c]

\* json.load parses the file: not while a writer has emptied it and is
\* still writing
FileReadable == writers = {}

\* the tuple a tool call returns to caller c
Returns(c, op, value, rc, out) ==
    /\ caller' = [caller EXCEPT ![c] =
            [IdleCaller EXCEPT !.op = op, !.value = value,
                               !.result = [rc |-> rc, out |-> out]]]
    /\ tool_result' = [rc |-> rc, out |-> out]

\* load_tasks raises JSONDecodeError (only FileNotFoundError is caught): the
\* exception leaves run_tool
LoadRaises(c, op, value) == Returns(c, op, value, 1, "JSONDecodeError")

\* the caller holds the dict it is going to save
Loaded(c, op, value, dict) ==
    /\ caller' = [caller EXCEPT ![c] =
            [pc |-> "loaded", op |-> op, value |-> value, tasks |-> dict,
             result |-> caller[c].result]]
    /\ UNCHANGED tool_result

\* task_create by caller c, up to its return or its call of save_tasks
\* (lines 200-214)
CallerCreate(c) ==
    /\ caller[c].pc = "idle"
    /\ IF ~FileReadable THEN LoadRaises(c, "task_create", "")
       ELSE IF CallerTask(c) \in DOMAIN tasks
            THEN Returns(c, "task_create", "", 1, "TASK_EXISTS")
            ELSE Loaded(c, "task_create", "",
                        DictPut(tasks, CallerTask(c), NewTask(CallerTask(c), {})))
    /\ selected' = "None"
    /\ NotAHealthCheck
    /\ UNCHANGED <<queueVars, workerVars, poolVars, orchVars, tasks, writers,
                   status_view, config, toolVars, bridgeVars>>

\* task_update of the status by caller c, up to its return or its call of
\* save_tasks (lines 217-226)
CallerUpdate(c, value) ==
    /\ caller[c].pc = "idle"
    /\ IF ~FileReadable THEN LoadRaises(c, "task_update", value)
       ELSE IF CallerTask(c) \notin DOMAIN tasks
            THEN Returns(c, "task_update", value, 1, "TASK_NOT_FOUND")
            ELSE Loaded(c, "task_update", value,
                        Updated(tasks, CallerTask(c), "status", value))
    /\ selected' = "None"
    /\ NotAHealthCheck
    /\ UNCHANGED <<queueVars, workerVars, poolVars, orchVars, tasks, writers,
                   status_view, config, toolVars, bridgeVars>>

\* save_tasks, line 198: open(TASK_FILE, "w") empties the file
save_tasks_open(c) ==
    /\ caller[c].pc = "loaded"
    /\ caller' = [caller EXCEPT ![c].pc = "writing"]
    /\ writers' = writers \cup {c}
    /\ NotAHealthCheck
    /\ UNCHANGED <<queueVars, workerVars, poolVars, orchVars, tasks, tool_result,
                   selected, status_view, config, toolVars, bridgeVars>>

\* save_tasks, line 199, and the tool's return: the dict is written out and
\* the file closed (of two writers at once, the one that closes last decides
\* the content; bytes a longer earlier write leaves behind are left out)
save_tasks_close(c) ==
    /\ caller[c].pc = "writing"
    /\ tasks' = caller[c].tasks
    /\ writers' = writers \ {c}
    /\ Returns(c, caller[c].op, caller[c].value, 0,
               IF caller[c].op = "task_create" THEN "CREATED" ELSE "UPDATED")
    /\ selected' = "None"
    /\ NotAHealthCheck
    /\ UNCHANGED <<queueVars, workerVars, poolVars, orchVars, status_view, config, toolVars,
                   bridgeVars>>

\* dashboard/app.py get_status (lines 77-85): json.load of the file, and {}
\* when that raises JSONDecodeError
get_status ==
    /\ status_view' = IF FileReadable THEN tasks ELSE EmptyObj
    /\ NotAHealthCheck
    /\ UNCHANGED <<queueVars, workerVars, poolVars, orchVars, tasks, tool_result,
                   selected, caller, writers, config, toolVars, bridgeVars>>

(***************************************************************************)
(* SpecShared: two callers of the task tools, each on its own task id, and *)
(* the dashboard reading the file                                          *)
(***************************************************************************)
NextShared ==
    \/ \E c \in Callers : CallerCreate(c)
    \/ \E c \in Callers, value \in {"completed", "failed"} : CallerUpdate(c, value)
    \/ \E c \in Callers : save_tasks_open(c)
    \/ \E c \in Callers : save_tasks_close(c)
    \/ get_status

SpecShared == InitTasks /\ [][NextShared]_vars

(***************************************************************************)
(* start_monitoring / stop_monitoring and the threads that run             *)
(* monitor_queues (dashboard/app.py lines 743-792)                         *)
(***************************************************************************)
\* threading.Thread objects that have not been started yet
FreeThreads == {t \in ThreadIds : monitor_threads[t] = "NoThread"}

\* the threads that are inside monitor_queues
LiveThreads == {t \in ThreadIds : monitor_threads[t] \in {"Loop", "Sleep"}}

\* the variables a pass of monitor_queues and the two calls leave alone
ThreadFrame ==
    UNCHANGED <<queueVars, hist, monitor_pc, monitor_seen, api_response, storeVars,
                orchVars, config, toolVars, tm_queue, tm_status, active, launches,
                main_loop>>

\* start_monitoring (lines 773-779): only the flag is tested
start_monitoring ==
    /\ FreeThreads # {}
    /\ IF ~monitoring_active
       THEN /\ monitoring_active' = TRUE
            /\ monitor_threads' = [monitor_threads EXCEPT ![Min(FreeThreads)] = "Loop"]
       ELSE UNCHANGED <<monitoring_active, monitor_threads>>
    /\ NotAHealthCheck
    /\ UNCHANGED <<wk, now, worker_processes, worker_health>>
    /\ ThreadFrame

\* stop_monitoring (lines 781-784): clears the flag, waits for no thread
stop_monitoring ==
    /\ monitoring_active' = FALSE
    /\ NotAHealthCheck
    /\ UNCHANGED <<wk, now, worker_processes, worker_health, monitor_threads>>
    /\ ThreadFrame

\* thread t tests 'while monitoring_active' and runs one pass up to its sleep
\* (lines 747-767), or leaves monitor_queues
ThreadPass(t) ==
    /\ monitor_threads[t] = "Loop"
    /\ IF monitoring_active
       THEN /\ monitor_threads' = [monitor_threads EXCEPT ![t] = "Sleep"]
            /\ wk' = IF ScaleUp THEN SpawnedProcs(FALSE) ELSE wk
            /\ worker_processes' = IF ScaleUp THEN SpawnedRegistry(FALSE)
                                   ELSE worker_processes
            /\ worker_health' =
                 IF ScaleUp
                 THEN check_worker_health(SpawnedProcs(FALSE), SpawnedRegistry(FALSE),
                                          worker_health, now)
                 ELSE check_worker_health(wk, worker_processes, worker_health, now)
            /\ health_checked' = TRUE
       ELSE /\ monitor_threads' = [monitor_threads EXCEPT ![t] = "Done"]
            /\ NotAHealthCheck
            /\ UNCHANGED <<wk, worker_processes, worker_health>>
    /\ UNCHANGED <<now, monitoring_active>>
    /\ ThreadFrame

\* thread t's time.sleep(30) ends; d is the time that has passed since the
\* last step of any thread
ThreadWake(t, d) ==
    /\ monitor_threads[t] = "Sleep"
    /\ now + d <= MaxControlTime
    /\ now' = now + d
    /\ monitor_threads' = [monitor_threads EXCEPT ![t] = "Loop"]
    /\ NotAHealthCheck
    /\ UNCHANGED <<wk, worker_processes, worker_health, monitoring_active>>
    /\ ThreadFrame

(***************************************************************************)
(* SpecThreads: callers of start_monitoring and stop_monitoring, the       *)
(* threads they leave behind, and a producer of work items                 *)
(***************************************************************************)
NextThreads ==
    \/ start_monitoring
    \/ stop_monitoring
    \/ \E t \in ThreadIds : ThreadPass(t)
    \/ \E t \in ThreadIds, d \in {0, SleepInterval} : ThreadWake(t, d)
    \/ enqueue_task("worker_queue", JsonDumps(WorkItem("b1")))

SpecThreads == InitPool /\ [][NextThreads]_vars

(***************************************************************************)
(* taskmaster_bridge.py: main_loop, its task threads (worker) and the      *)
(* producer of .taskmaster/queue.json (Job_Runner.enqueue)                 *)
(***************************************************************************)
MaxTmTasks == 4      \* tasks that are put on .taskmaster/queue.json

\* int(os.getenv("TM_MAX_PARALLEL", "3"))
MAX_PARALLEL == 3

\* the variables the bridge does not touch
BridgeFrame ==
    /\ NotAHealthCheck
    /\ UNCHANGED <<queueVars, workerVars, poolVars, storeVars, orchVars, config, toolVars,
                   monitor_threads>>

\* th.is_alive() of a Thread object: it has been started and has not ended
is_alive(th) == th.pc # "Dead"

\* the task ids whose thread in active is alive
AliveThreads == {tid \in DOMAIN active : is_alive(active[tid])}

\* line 55 with > in place of >=
AtCapacityOffByOne == Cardinality(AliveThreads) > MAX_PARALLEL

\* line 55: len([th for th in active.values() if th.is_alive()]) >= MAX_PARALLEL
AtCapacity == Cardinality(AliveThreads) >= MAX_PARALLEL

\* line 54: status.get(tid, {}).get("state") in {"DONE", "ERROR"}
Completed(tid) == tid \in DOMAIN tm_status /\ tm_status[tid] \in {"DONE", "ERROR"}

\* Job_Runner.enqueue (lines 62-75): a task with a fresh id goes to the end
\* of the queue file. Only load_queue reads the file, so the step is taken
\* when main_loop is about to load
tm_enqueue ==
    /\ Len(tm_queue) < MaxTmTasks
    /\ main_loop.pc = "Load"
    /\ tm_queue' = Append(tm_queue, Len(tm_queue) + 1)
    /\ UNCHANGED <<tm_status, active, launches, main_loop>>
    /\ BridgeFrame

\* line 48: q = load_queue()
load_queue ==
    /\ main_loop.pc = "Load"
    /\ main_loop' = [pc |-> "Scan", q |-> tm_queue, k |-> 1]
    /\ UNCHANGED <<tm_queue, tm_status, active, launches>>
    /\ BridgeFrame

\* lines 50-59: one turn of 'for t in q', or the end of the for loop
main_loop_scan ==
    /\ main_loop.pc = "Scan"
    /\ IF main_loop.k > Len(main_loop.q)
       THEN /\ main_loop' = [main_loop EXCEPT !.pc = "Cleanup"]
            /\ UNCHANGED <<active, launches>>
       ELSE LET tid == main_loop.q[main_loop.k]
            IN IF tid \in DOMAIN active \/ Completed(tid)
               THEN /\ main_loop' = [main_loop EXCEPT !.k = @ + 1]
                    /\ UNCHANGED <<active, launches>>
               ELSE IF AtCapacity
               THEN /\ main_loop' = [main_loop EXCEPT !.pc = "Cleanup"]
                    /\ UNCHANGED <<active, launches>>
               ELSE /\ active' = DictPut(active, tid, [pc |-> "Start", resized |-> FALSE])
                    /\ launches' = launches \cup {tid}
                    /\ main_loop' = [main_loop EXCEPT !.k = @ + 1]
    /\ UNCHANGED <<tm_queue, tm_status>>
    /\ BridgeFrame

\* lines 62-65: forget the threads that have ended, then sleep
main_loop_cleanup ==
    /\ main_loop.pc = "Cleanup"
    /\ active' = [tid \in AliveThreads |-> active[tid]]
    /\ main_loop' = [pc |-> "Load", q |-> <<>>, k |-> 1]
    /\ UNCHANGED <<tm_queue, tm_status, launches>>
    /\ BridgeFrame

\* worker, lines 21-26 up to the start of json.dump: status[tid] is set to
\* RUNNING in the dict all threads share, and the dump starts to walk it. A
\* key that is new changes the size of the dict under every dump in progress
worker_begin(tid) ==
    /\ active[tid].pc = "Start"
    /\ tm_status' = DictPut(tm_status, tid, "RUNNING")
    /\ active' = [t \in DOMAIN active |->
                     IF t = tid THEN [pc |-> "Saving", resized |-> FALSE]
                     ELSE IF active[t].pc = "Saving" /\ tid \notin DOMAIN tm_status
                     THEN [active[t] EXCEPT !.resized = TRUE]
                     ELSE active[t]]
    /\ UNCHANGED <<tm_queue, launches, main_loop>>
    /\ BridgeFrame

\* worker, line 26: save_status(status) ends. json.dump walks the shared dict
\* without a lock; when another thread has added a key meanwhile, the walk
\* raises RuntimeError (dictionary changed size during iteration) or had
\* passed already. The call is outside the try: the exception ends the thread
worker_saved(tid, raised) ==
    /\ active[tid].pc = "Saving"
    /\ raised => active[tid].resized
    /\ active' = [active EXCEPT ![tid] =
                     [pc |-> IF raised THEN "Dead" ELSE "Run", resized |-> FALSE]]
    /\ UNCHANGED <<tm_queue, tm_status, launches, main_loop>>
    /\ BridgeFrame

\* proc.returncode of the orchestrator process of a task (line 34; 1 stands
\* for every failure, an exception of subprocess.run included). A thread that
\* reaches subprocess.run ends with DONE or ERROR, so a task has one such
\* process at most: the tasks with an even id are the ones that fail
returncode(tid) == tid % 2

\* worker, lines 27-42: subprocess.run has returned; the state is set to DONE
\* or ERROR, the status is saved and the thread ends
worker_done(tid) ==
    /\ active[tid].pc = "Run"
    /\ tm_status' = DictPut(tm_status, tid,
                            IF returncode(tid) = 0 THEN "DONE" ELSE "ERROR")
    /\ active' = [active EXCEPT ![tid].pc = "Dead"]
    /\ UNCHANGED <<tm_queue, launches, main_loop>>
    /\ BridgeFrame

\* a step of main_loop, a step of a task thread
MainLoopStep == load_queue \/ main_loop_scan \/ main_loop_cleanup

ThreadStep ==
    \E tid \in DOMAIN active :
        \/ worker_begin(tid)
        \/ \E raised \in BOOLEAN : worker_saved(tid, raised)
        \/ worker_done(tid)

(***************************************************************************)
(* SpecBridge: the bridge next to a producer of tasks. SpecBridgeFair      *)
(* adds what the scheduler gives: main_loop and the task threads go on     *)
(* running, and every orchestrator process ends                            *)
(***************************************************************************)
NextBridge ==
    \/ tm_enqueue
    \/ load_queue
    \/ main_loop_scan
    \/ main_loop_cleanup
    \/ \E tid \in DOMAIN active : worker_begin(tid)
    \/ \E tid \in DOMAIN active, raised \in BOOLEAN : worker_saved(tid, raised)
    \/ \E tid \in DOMAIN active : worker_done(tid)

SpecBridge == InitPool /\ [][NextBridge]_vars

SpecBridgeFair ==
    InitPool /\ [][NextBridge]_vars /\ WF_vars(MainLoopStep) /\ WF_vars(ThreadStep)

(***************************************************************************)
(* Orchistrate.py run_tool as the one entry to every tool (lines 162-293)  *)
(***************************************************************************)
MaxCommands == 2     \* external commands run_tool runs

\* the names of ALLOWED_TOOLS (lines 118-160) that this model runs
ALLOWED_TOOLS ==
    {"pytest", "mem_put", "mem_del", "task_create", "task_update",
     "enqueue_task", "dequeue_task"}

\* the names callers ask for: parse_tool_requests passes on any name
ToolNames == ALLOWED_TOOLS \cup {"rm", "task_delete"}

\* line 163: tool not in ALLOWED_TOOLS
DeniedNever(tool) == FALSE

Denied(tool) == tool \notin ALLOWED_TOOLS

\* the tuple a tool returns, and the state it leaves alone
ToolReturns(rc, out, untouched) ==
    /\ tool_result' = [rc |-> rc, out |-> out]
    /\ UNCHANGED untouched

\* run_tool(tool, args); args gives the key (task id, memory key) and the
\* value the tool is called with
run_tool(tool, args) ==
    /\ last_tool' = tool
    /\ IF Denied(tool)
       THEN ToolReturns(1, "DENIED", <<queueVars, tasks, UM, commands>>)
       ELSE CASE tool = "mem_put" ->
                   /\ UM' = DictPut(UM, args.key, args.value)
                   /\ ToolReturns(0, "OK", <<queueVars, tasks, commands>>)
              [] tool = "mem_del" ->
                   /\ UM' = DictDel(UM, args.key)
                   /\ ToolReturns(0, IF args.key \in DOMAIN UM THEN "OK" ELSE "MISS",
                                  <<queueVars, tasks, commands>>)
              [] tool = "task_create" ->
                   /\ tasks' = IF args.key \in DOMAIN tasks THEN tasks
                               ELSE DictPut(tasks, args.key, NewTask(args.key, {}))
                   /\ IF args.key \in DOMAIN tasks
                      THEN ToolReturns(1, "TASK_EXISTS", <<queueVars, UM, commands>>)
                      ELSE ToolReturns(0, "CREATED", <<queueVars, UM, commands>>)
              [] tool = "task_update" ->
                   /\ tasks' = Updated(tasks, args.key, "status", args.value)
                   /\ IF args.key \in DOMAIN tasks
                      THEN ToolReturns(0, "UPDATED", <<queueVars, UM, commands>>)
                      ELSE ToolReturns(1, "TASK_NOT_FOUND", <<queueVars, UM, commands>>)
              [] tool = "enqueue_task" ->
                   /\ Len(enqLog["worker_queue"]) < MaxItems
                   /\ RunToolEnqueue("worker_queue", JsonDumps(WorkItem("b1")))
                   /\ ToolReturns(0, "ENQUEUED",
                                  <<deqLog, client_result, tasks, UM, commands>>)
              [] tool = "dequeue_task" ->
                   /\ client_result' = RunToolDequeueResult("worker_queue")
                   /\ IF queues["worker_queue"] # <<>>
                      THEN Pop("worker_queue") /\ ToolReturns(0, "ITEM", <<enqLog>>)
                      ELSE ToolReturns(0, "EMPTY_QUEUE", <<queues, enqLog, deqLog>>)
                   /\ UNCHANGED <<tasks, UM, commands>>
              [] OTHER ->
                   /\ Len(commands) < MaxCommands
                   /\ commands' = Append(commands, tool)
                   /\ ToolReturns(0, "STDOUT", <<queueVars, tasks, UM>>)
    /\ selected' = "None"
    /\ NotAHealthCheck
    /\ UNCHANGED <<workerVars, poolVars, orchVars, sharedVars, config, bridgeVars>>

(***************************************************************************)
(* SpecTools: a caller that asks run_tool for any tool name                *)
(***************************************************************************)
ToolArgs ==
    {[key |-> IdPool[1], value |-> "completed"], [key |-> IdPool[2], value |-> "failed"]}

NextTools == \E tool \in ToolNames, args \in ToolArgs : run_tool(tool, args)

SpecTools == InitTasks /\ [][NextTools]_vars

(***************************************************************************)
(* Claims about the Task Store                                             *)
(***************************************************************************)
\* C4: the task that task_complete_node has just selected is stored with
\* status pending, and every id in its dependency list is the key of a task
\* whose status is completed
C4_SelectedIsEligible ==
    selected # "None" =>
        /\ tasks[selected].status = "pending"
        /\ \A d \in tasks[selected].dependencies :
              d \in DOMAIN tasks /\ tasks[d].status = "completed"

\* the tasks reached from k by one or more dependency edges
RECURSIVE DependsOn(_, _, _)
DependsOn(ts, from, n) ==
    IF n = 0 THEN {}
    ELSE LET direct == UNION {ts[k].dependencies : k \in from \cap DOMAIN ts}
         IN direct \cup DependsOn(ts, direct, n - 1)

\* C5: the dependency graph of the store is acyclic: no task is reached from
\* itself along dependency edges (so no create that closes a cycle, a task
\* that depends on itself included, was accepted)
C5_DependencyGraphAcyclic ==
    \A k \in DOMAIN tasks : k \notin DependsOn(tasks, {k}, MaxTasks)

\* C14: a step that answers TASK_EXISTS fails (rc 1) and leaves the store as
\* it was; the store gets a new key only by a create that answers CREATED,
\* and then exactly one record is added, with status pending and its key as
\* id, next to the unchanged old records; a create never rewrites a record
C14_CreateRejectsDuplicate ==
    [][/\ tool_result'.out = "TASK_EXISTS" => tool_result'.rc = 1 /\ tasks' = tasks
       /\ DOMAIN tasks' # DOMAIN tasks =>
              /\ tool_result' = [rc |-> 0, out |-> "CREATED"]
              /\ \E k \in DOMAIN tasks' \ DOMAIN tasks :
                    /\ DOMAIN tasks' = DOMAIN tasks \cup {k}
                    /\ tasks'[k].status = "pending"
                    /\ tasks'[k].id = k
              /\ \A j \in DOMAIN tasks : tasks'[j] = tasks[j]
       /\ (tool_result'.out = "CREATED" /\ tasks' # tasks) =>
              DOMAIN tasks' # DOMAIN tasks]_vars

\* C14 witness: a create was rejected for a record that is no longer what a
\* fresh create would store, next to a record that a create did store
C14_Witness ==
    /\ tool_result = [rc |-> 1, out |-> "TASK_EXISTS"]
    /\ \E k \in DOMAIN tasks : tasks[k].status # "pending"
    /\ \E k \in DOMAIN tasks : tasks[k].status = "pending"

\* C15: a step that answers TASK_NOT_FOUND fails (rc 1) and leaves the store
\* as it was, and no step that answers UPDATED or TASK_NOT_FOUND adds a key
C15_UpdateOfUnknownIdFails ==
    [][/\ tool_result'.out = "TASK_NOT_FOUND" =>
              tool_result'.rc = 1 /\ tasks' = tasks
       /\ tool_result'.out \in {"UPDATED", "TASK_NOT_FOUND"} =>
              DOMAIN tasks' = DOMAIN tasks]_vars

\* C15 witness: an update was refused while the store holds other records
C15_Witness ==
    /\ tool_result = [rc |-> 1, out |-> "TASK_NOT_FOUND"]
    /\ tasks # EmptyObj
    /\ DOMAIN tasks # TaskIds

\* the status changes of the life cycle (a task may also be completed
\* straight from pending, as task_complete_node does)
LegalMove(from, to) ==
    \/ from = to
    \/ from = "pending" /\ to \in {"in_progress", "completed", "failed"}
    \/ from = "in_progress" /\ to \in {"completed", "failed"}

\* C13: no step changes a stored task's status other than along
\* pending -> in_progress -> completed or pending/in_progress -> failed; a
\* task in completed or failed keeps its status for ever
C13_StatusFollowsLifecycle ==
    [][\A k \in DOMAIN tasks : LegalMove(tasks[k].status, tasks'[k].status)]_vars

(***************************************************************************)
(* Orchistrate.py: the graph plan -> research -> pm -> monitor, with the   *)
(* conditional edge should_iterate from monitor to monitor or END          *)
(***************************************************************************)
MaxPasses == 12      \* runs of monitoring_node in one run of the graph

\* the bound should_iterate compares state["iterations"] with
IterationBudget == 10

\* what pm_node reads from its model's answer: the branches of the sub-tasks
\* (none when the answer is an empty array or is not JSON)
PmOutputs == {<<>>, <<"b1">>, <<"b1", "b2">>}

\* the entries pm_node's pushes store, given the pushes logged so far
EntriesFor(log, branches) ==
    [n \in 1..Len(branches) |->
        [uid |-> Len(log) + n, data |-> JsonDumps(WorkItem(branches[n]))]]

RECURSIVE LPushAll(_, _)
LPushAll(q, xs) == IF xs = <<>> THEN q ELSE LPushAll(LPush(q, Head(xs)), Tail(xs))

\* plan_node, research_node: no queue and no sub-task is touched
plan_node ==
    /\ node = "plan"
    /\ node' = "research"
    /\ NotAHealthCheck
    /\ UNCHANGED <<queueVars, workerVars, poolVars, storeVars, state, monitor_passes, config,
                   toolVars, bridgeVars>>

research_node ==
    /\ node = "research"
    /\ node' = "pm"
    /\ NotAHealthCheck
    /\ UNCHANGED <<queueVars, workerVars, poolVars, storeVars, state, monitor_passes, config,
                   toolVars, bridgeVars>>

\* pm_node that leaves its last sub-task out of worker_queue
pm_nodeSkipsLast(branches) ==
    /\ node = "pm"
    /\ queues' = [queues EXCEPT !["worker_queue"] =
                      LPushAll(@, EntriesFor(enqLog["worker_queue"],
                                             SubSeq(branches, 1, Len(branches) - 1)))]
    /\ enqLog' = [enqLog EXCEPT !["worker_queue"] =
                      @ \o EntriesFor(@, SubSeq(branches, 1, Len(branches) - 1))]
    /\ state' = [state EXCEPT !.sub_tasks = branches]
    /\ node' = "monitor"
    /\ NotAHealthCheck
    /\ UNCHANGED <<deqLog, client_result, workerVars, poolVars, storeVars, monitor_passes,
                   config, toolVars, bridgeVars>>

\* pm_node: one enqueue_task per sub-task, then sub_tasks in the state
pm_node(branches) ==
    /\ node = "pm"
    /\ queues' = [queues EXCEPT !["worker_queue"] =
                      LPushAll(@, EntriesFor(enqLog["worker_queue"], branches))]
    /\ enqLog' = [enqLog EXCEPT !["worker_queue"] = @ \o EntriesFor(@, branches)]
    /\ state' = [state EXCEPT !.sub_tasks = branches]
    /\ node' = "monitor"
    /\ NotAHealthCheck
    /\ UNCHANGED <<deqLog, client_result, workerVars, poolVars, storeVars, monitor_passes,
                   config, toolVars, bridgeVars>>

\* result_data["branch"], ["instruction"], ["status"] raise KeyError
HasResultKeys(p) ==
    p.kind = "obj" /\ {"branch", "instruction", "status"} \subseteq DOMAIN p.obj

\* monitoring_node: one dequeue_task on results_queue
monitoring_node ==
    /\ node = "monitor"
    /\ monitor_passes < MaxPasses
    /\ monitor_passes' = monitor_passes + 1
    /\ IF RunToolDequeueResult("results_queue").out = EMPTY_QUEUE
       THEN UNCHANGED <<queues, deqLog, state>>
       ELSE /\ Pop("results_queue")
            /\ IF HasResultKeys(RunToolDequeueResult("results_queue").out)
               THEN state' = [state EXCEPT !.last_result =
                                  RunToolDequeueResult("results_queue").out.obj]
               ELSE UNCHANGED state
    /\ node' = "should_iterate"
    /\ NotAHealthCheck
    /\ UNCHANGED <<enqLog, client_result, workerVars, poolVars, storeVars, config, toolVars,
                   bridgeVars>>

\* the branches should_iterate adds to completed_branches while it empties q
CompletedBranches(q) ==
    {q[n].data.obj["branch"] : n \in {m \in 1..Len(q) :
        /\ q[m].data.kind = "obj"
        /\ "status" \in DOMAIN q[m].data.obj
        /\ q[m].data.obj["status"] = "success"
        /\ "branch" \in DOMAIN q[m].data.obj}}

\* {task["branch"] for task in sub_tasks}
TaskBranches(sub_tasks) == {sub_tasks[n] : n \in 1..Len(sub_tasks)}

\* what should_iterate returns after it has emptied q
Verdict(st, q) ==
    IF TaskBranches(st.sub_tasks) \subseteq CompletedBranches(q) THEN "finish"
    ELSE IF st.iterations >= IterationBudget THEN "finish"
    ELSE "iterate"

\* should_iterate, the condition of the edge that leaves monitor
should_iterate ==
    /\ node = "should_iterate"
    /\ IF state.sub_tasks = <<>>
       THEN /\ node' = "END"
            /\ UNCHANGED <<queues, deqLog>>
       ELSE /\ queues' = [queues EXCEPT !["results_queue"] = <<>>]
            /\ deqLog' = [deqLog EXCEPT !["results_queue"] =
                              @ \o Reverse(queues["results_queue"])]
            /\ node' = IF Verdict(state, queues["results_queue"]) = "finish"
                       THEN "END" ELSE "monitor"
    /\ NotAHealthCheck
    /\ UNCHANGED <<enqLog, client_result, workerVars, poolVars, storeVars, state,
                   monitor_passes, config, toolVars, bridgeVars>>

(***************************************************************************)
(* SpecMonitor: one run of the graph next to one worker process            *)
(***************************************************************************)
InitMonitor ==
    /\ InitQueues
    /\ InitRegistry
    /\ InitStore
    /\ InitOrch
    /\ wk = [p \in Procs |-> IF p = 1 THEN IdleLocals ELSE NoProc]
    /\ hist = [p \in Procs |-> NoHist]

NextMonitor ==
    \/ plan_node
    \/ research_node
    \/ \E branches \in PmOutputs : pm_node(branches)
    \/ monitoring_node
    \/ should_iterate
    \/ WorkerIdle(1)
    \/ WorkerDequeue(1)
    \/ WorkerCheckout(1)
    \/ \E patch \in {"diff_ok", "diff_rejected"} : WorkerCoder(1, patch)
    \/ WorkerApply(1)
    \/ WorkerCommit(1)
    \/ WorkerReportSuccess(1)
    \/ WorkerRetry(1)
    \/ WorkerReportFailed(1)
    \/ WorkerCrash(1)

SpecMonitor == InitMonitor /\ [][NextMonitor]_vars

(***************************************************************************)
(* SpecTracked: SpecMonitor with task tracking in use: before pm_node has  *)
(* run, a task is created for a sub-task, stored under the branch's name   *)
(***************************************************************************)
NextTracked ==
    \/ NextMonitor
    \/ \E b \in Branches : node \in {"plan", "research", "pm"} /\ task_create(b, {})

SpecTracked == InitMonitor /\ [][NextTracked]_vars

(***************************************************************************)
(* SpecGraph: SpecMonitor plus the runs of pm_node that end in an          *)
(* exception: pm_node catches json.JSONDecodeError only, so a sub-task     *)
(* without its keys (KeyError) or a failing lpush leaves pm_node after the *)
(* pushes made so far, and graph.invoke ends there                         *)
(***************************************************************************)
pm_node_raises(branches, done) ==
    /\ node = "pm"
    /\ queues' = [queues EXCEPT !["worker_queue"] =
                      LPushAll(@, EntriesFor(enqLog["worker_queue"],
                                             SubSeq(branches, 1, done)))]
    /\ enqLog' = [enqLog EXCEPT !["worker_queue"] =
                      @ \o EntriesFor(@, SubSeq(branches, 1, done))]
    /\ node' = "Raised"
    /\ NotAHealthCheck
    /\ UNCHANGED <<deqLog, client_result, workerVars, poolVars, storeVars, state,
                   monitor_passes, config, toolVars, bridgeVars>>

NextGraph ==
    \/ NextMonitor
    \/ \E branches \in PmOutputs \ {<<>>}, done \in 0..MaxItems :
          done < Len(branches) /\ pm_node_raises(branches, done)

SpecGraph == InitMonitor /\ [][NextGraph]_vars

(***************************************************************************)
(* Claims about the monitor loop                                           *)
(***************************************************************************)
\* C10: a monitoring run is over once its iteration budget is used up:
\* monitoring_node never runs more than IterationBudget + 1 times in one run
\* of the graph, whether or not the branches produce results
C10_FinishesWithinBudget == monitor_passes <= IterationBudget + 1

\* the branches of the results the monitor (monitoring_node or should_iterate)
\* has popped from results_queue so far
DrainedBranches ==
    {deqLog["results_queue"][n].data.obj["branch"] :
        n \in {m \in 1..Len(deqLog["results_queue"]) :
                  HasResultKeys(deqLog["results_queue"][m].data)}}

\* C11: once the monitor has drained a result (success or failed) for every
\* sub-task branch, the run has finished: should_iterate does not send the
\* graph back to monitor, in whichever passes the results were popped
C11_DrainedRunFinishes ==
    (/\ state.sub_tasks # <<>>
     /\ monitor_passes > 0
     /\ TaskBranches(state.sub_tasks) \subseteq DrainedBranches)
        => node # "monitor"

C8_ExitedWorkerReaped ==
    health_checked =>
        /\ \A w \in DOMAIN worker_processes : Running(worker_processes[w].process)
        /\ \A w \in DOMAIN worker_health :
              (w \notin DOMAIN worker_processes
                  \/ ~Running(worker_processes[w].process))
                => worker_health[w].status = "stopped"

\* C9 as stated: in every state, a registered worker whose process is alive
\* and whose heartbeat is older than WORKER_TIMEOUT is reported as timeout
C9_TimeoutReportedAlways ==
    \A w \in DOMAIN worker_processes :
        (Running(worker_processes[w].process)
            /\ now - LastHeartbeat(worker_processes[w]) > WORKER_TIMEOUT)
          => ReportedHealth(w) = "timeout"

\* C9 amended: right after a health check, a registered worker whose process
\* is alive and whose heartbeat is older than WORKER_TIMEOUT is reported as
\* timeout
C9_TimeoutReportedAfterCheck == health_checked => C9_TimeoutReportedAlways

\* C9 witness: a health check has just marked a live worker as timeout
C9_Witness ==
    /\ health_checked
    /\ \E w \in DOMAIN worker_processes :
          /\ Running(worker_processes[w].process)
          /\ now - LastHeartbeat(worker_processes[w]) > WORKER_TIMEOUT
          /\ ReportedHealth(w) = "timeout"

(***************************************************************************)
(* Claims about the control surface                                        *)
(***************************************************************************)
\* C16: when stop_worker has answered for a registered worker, whether or
\* not the process left within the grace period, the worker's process is no
\* longer running and its record is no longer in the registry
C16_StopEndsProcessAndRecord ==
    [][(/\ api_response' # api_response
        /\ api_response'.op = "stop_worker"
        /\ api_response'.worker_id \in DOMAIN worker_processes)
          => /\ ~IsRunning(wk', worker_processes[api_response'.worker_id].process)
             /\ api_response'.worker_id \notin DOMAIN worker_processes']_vars

\* process p has popped a work item and not yet pushed its result
HoldsItem(p) == wk[p].pc \notin {"NoProc", "Exited", "Idle"}

\* C17: when stop_worker_revert has stopped a worker that had popped a work
\* item and not yet pushed its result, worker_queue has got that same work
\* item back as its newest entry
C17_RevertRequeuesHeldItem ==
    [][(/\ api_response' # api_response
        /\ api_response'.op = "stop_worker_revert"
        /\ api_response'.code = 200
        /\ api_response'.worker_id \in DOMAIN worker_processes
        /\ HoldsItem(worker_processes[api_response'.worker_id].process))
          => /\ Len(queues'["worker_queue"]) = Len(queues["worker_queue"]) + 1
             /\ Head(queues'["worker_queue"]).data =
                   Last(hist[worker_processes[api_response'.worker_id].process].popped).data]_vars

\* the worker processes that are running
LiveWorkers == {p \in Procs : Running(p)}

\* C18: however spawn_worker is called, from the endpoint and from the
\* control loop, no more than MAX_WORKERS worker processes are running
C18_LiveWorkersBounded == Cardinality(LiveWorkers) <= MAX_WORKERS

\* the scale-up rule as the specification words it
ScaleUpRule ==
    \/ queue_depth > 0 /\ active_workers = 0 /\ pool_size < MAX_WORKERS
    \/ queue_depth > 2 /\ active_workers < 2 /\ pool_size < MAX_WORKERS

\* a step that is one pass of the control loop
Tick == monitor_pc = "Loop" /\ monitor_pc' = "Sleep"

ResultsFor(p, uid) ==
    {k \in 1..Len(hist[p].pushed) : hist[p].pushed[k].for = uid}

\* C1: whenever a worker is back at Idle, it has pushed exactly one result,
\* carrying the item's branch, for every item it popped (invalid payloads
\* included), so results_queue got as many results as items were popped.
C1_ExactlyOneResultPerItem ==
    \A p \in Procs :
        wk[p].pc = "Idle" =>
            \A k \in 1..Len(hist[p].popped) :
                LET item == hist[p].popped[k]
                    res == ResultsFor(p, item.uid)
                IN /\ Cardinality(res) = 1
                   /\ \A r \in res :
                         "branch" \in DOMAIN item.data.obj =>
                             hist[p].pushed[r].data.branch = item.data.obj["branch"]

\* C2: a worker never makes more than 3 attempts for an item; a failed result
\* is pushed only after 3 attempts; and when every attempt failed, the worker
\* is back at Idle only after exactly 3 attempts and exactly one result, failed.
C2_ThreeAttemptsThenFailed ==
    \A p \in Procs :
        hist[p].popped # <<>> =>
            LET res == ResultsFor(p, CurrentUid(p))
            IN /\ hist[p].calls <= 3
               /\ (\E r \in res : hist[p].pushed[r].data.status = "failed")
                     => hist[p].calls = 3
               /\ (wk[p].pc = "Idle" /\ hist[p].calls > 0
                       /\ hist[p].fails = hist[p].calls)
                     => /\ hist[p].calls = 3
                        /\ Cardinality(res) = 1
                        /\ \A r \in res : hist[p].pushed[r].data.status = "failed"

\* C2 witness: a worker is back at Idle after three failed attempts
C2_Witness ==
    \E p \in Procs :
        /\ wk[p].pc = "Idle"
        /\ hist[p].calls = 3
        /\ hist[p].fails = 3
        /\ hist[p].pushed # <<>>
        /\ Last(hist[p].pushed).data.status = "failed"

\* C6: no work item is popped by two workers, nor twice by one
C6_ExclusiveDelivery ==
    \A p, q \in Procs :
        \A i \in 1..Len(hist[p].popped), j \in 1..Len(hist[q].popped) :
            (p # q \/ i # j) => hist[p].popped[i].uid # hist[q].popped[j].uid

\* C6 witness: two workers are processing items at the same time
C6_Witness ==
    \E p, q \in Procs :
        /\ p # q
        /\ wk[p].pc \in {"Coder", "Apply", "Commit", "Report", "Except"}
        /\ wk[q].pc \in {"Coder", "Apply", "Commit", "Report", "Except"}

\* each queue holds, tail first, what was pushed onto it and not yet popped,
\* and what was popped is the oldest part of what was pushed, in push order
FifoOrder ==
    \A n \in QueueNames : enqLog[n] = deqLog[n] \o Reverse(queues[n])

\* a step that pushes onto or pops from one queue leaves the other as it is
QueuesIndependent ==
    \A n, m \in QueueNames :
        (n # m /\ (enqLog'[n] # enqLog[n] \/ deqLog'[n] # deqLog[n]))
            => queues'[m] = queues[m]

\* C7: dequeue returns the items of a queue in the order they were enqueued,
\* whatever the interleaving, and an operation on one queue never changes
\* the content of the other
C7_FifoPerQueue == []FifoOrder /\ [][QueuesIndependent]_vars

\* C7 witness: both queues have been pushed onto at least twice, popped from,
\* and still hold an item
C7_Witness ==
    \A n \in QueueNames :
        /\ Len(enqLog[n]) >= 2
        /\ Len(deqLog[n]) >= 1
        /\ queues[n] # <<>>

(***************************************************************************)
(* Claims about the monitor and the Task Store                             *)
(***************************************************************************)
\* the status the Task Store is to show for a drained result
StatusFor(result) == IF result["status"] = "success" THEN "completed" ELSE "failed"

\* C12: for every result the monitor has drained from results_queue, the
\* task stored for the result's branch is completed when the result says
\* success and failed when it says failed
C12_DrainedResultMarksTask ==
    \A n \in 1..Len(deqLog["results_queue"]) :
        LET result == deqLog["results_queue"][n].data.obj
        IN result["branch"] \in DOMAIN tasks
              => tasks[result["branch"]].status = StatusFor(result)

(***************************************************************************)
(* Claims about the control loop's scaling                                 *)
(***************************************************************************)
\* a step that puts one more entry on worker_queue
EnqueuedWork == Len(enqLog'["worker_queue"]) = Len(enqLog["worker_queue"]) + 1

\* C21: after a work item is enqueued while no worker process is alive and
\* monitoring is active, the control loop's condition for starting a worker
\* holds (so its next pass calls spawn_worker), however many workers were
\* started and have exited before
C21_QueuedWorkGetsWorker ==
    [][(EnqueuedWork /\ active_workers = 0 /\ monitoring_active) => ScaleUp']_vars

\* worker w's record names a running process, and after the step the registry
\* has no record w for that process
LeavesPool(w) ==
    /\ Running(worker_processes[w].process)
    /\ \/ w \notin DOMAIN worker_processes'
       \/ worker_processes'[w].process # worker_processes[w].process

\* a step in which a stop endpoint answered for worker w
StopAnswered(w) ==
    /\ api_response' # api_response
    /\ api_response'.op \in {"stop_worker", "stop_worker_revert"}
    /\ api_response'.worker_id = w

\* C22: a pass of the control loop ends no running worker process, and a
\* worker whose process is running leaves the registry only in a step of
\* stop_worker or stop_worker_revert for that worker
C22_LiveWorkerLeavesOnlyByStop ==
    [][/\ Tick => \A p \in Procs : Running(p) => IsRunning(wk', p)
       /\ \A w \in DOMAIN worker_processes : LeavesPool(w) => StopAnswered(w)]_vars

(***************************************************************************)
(* Claims about shared access to the Task Store                            *)
(***************************************************************************)
\* when no caller is inside a task tool, the store shows the last call of
\* each caller that answered CREATED or UPDATED
NoLostUpdate ==
    (\A c \in Callers : caller[c].pc = "idle") =>
        \A c \in Callers :
            /\ caller[c].result.out \in {"CREATED", "UPDATED"}
                  => CallerTask(c) \in DOMAIN tasks
            /\ caller[c].result.out = "UPDATED"
                  => tasks[CallerTask(c)].status = caller[c].value

\* what a reader gets is the store as the last finished write left it
ReaderSeesWholeStore == status_view' # status_view => status_view' = tasks

\* C23: callers that create and update different task ids at the same time
\* lose no mutation (once both calls have returned, both are in the store),
\* and a reader never gets a store that is partly written
C23_StoreMutationsAtomic == []NoLostUpdate /\ [][ReaderSeesWholeStore]_vars

(***************************************************************************)
(* Claims about the registry and the two threads that use it               *)
(***************************************************************************)
\* a step taken while the control loop has read the registry and has not
\* yet used what it read
BetweenReadAndUse == monitor_pc = "Read" /\ monitor_pc' = "Read"

\* C24: no request handler changes the worker registry while the control
\* loop is between reading the registry and using what it read
C24_RegistryNotChangedUnderLoop ==
    [][BetweenReadAndUse => worker_processes' = worker_processes]_vars

(***************************************************************************)
(* Claims about the fields of a stored task                                *)
(***************************************************************************)
\* C25: every stored task's status is one of pending, in_progress,
\* completed, failed, whatever value task_update was called with
C25_StatusInLifecycleSet == \A k \in DOMAIN tasks : tasks[k].status \in Statuses

\* C26: no step removes a key from the store, and every record's id field
\* is the key it is stored under, also after task_update with field "id"
C26_IdImmutableNeverRemoved ==
    /\ [][DOMAIN tasks \subseteq DOMAIN tasks']_vars
    /\ [](\A k \in DOMAIN tasks : tasks[k].id = k)

(***************************************************************************)
(* Claims about the dequeue operations                                     *)
(***************************************************************************)
\* a dequeue has returned the outcome of a backing-store failure
ReturnedFailure ==
    /\ client_result'.rc # 0
    /\ client_result'.out # EMPTY_QUEUE
    /\ UNCHANGED <<queues, deqLog>>

\* a dequeue has returned the empty signal with a success code, on a queue
\* that is empty, and has changed nothing
ReturnedEmpty ==
    /\ client_result' = [rc |-> 0, out |-> EMPTY_QUEUE]
    /\ \E n \in QueueNames : queues[n] = <<>>
    /\ UNCHANGED <<queues, deqLog>>

\* a dequeue has returned, with a success code, the item at the tail of a
\* queue and has removed that item and nothing else
ReturnedItem ==
    \E n \in QueueNames :
        /\ queues[n] # <<>>
        /\ client_result' = [rc |-> 0, out |-> Last(queues[n]).data]
        /\ queues' = [queues EXCEPT ![n] = Front(@)]
        /\ deqLog' = [deqLog EXCEPT ![n] = Append(@, Last(queues[n]))]

\* C27: every dequeue ends in one of three outcomes: the empty signal with
\* rc 0 on an empty queue (nothing changed), a failure outcome that is not
\* the empty signal, or the tail item of a non-empty queue with exactly that
\* item removed; and on an empty queue the empty signal is always to be had
C27_DequeueOutcomes ==
    /\ [][client_result' # client_result
             => ReturnedFailure \/ ReturnedEmpty \/ ReturnedItem]_vars
    /\ [](\A n \in QueueNames : queues[n] = <<>> => ENABLED dequeue_task_empty(n))

\* C27 witness: a queue was emptied by pops of work items and the dequeue
\* that followed returned the empty signal, while the other queue holds work
C27_Witness ==
    /\ client_result = [rc |-> 0, out |-> EMPTY_QUEUE]
    /\ \A n \in QueueNames : \A k \in 1..Len(deqLog[n]) : deqLog[n][k].data # EMPTY_QUEUE
    /\ \E n, m \in QueueNames :
          /\ queues[n] = <<>>
          /\ deqLog[n] # <<>>
          /\ queues[m] # <<>>

(***************************************************************************)
(* Claims about failures in the worker loop                                *)
(***************************************************************************)
\* C28: no step of worker_node ends the worker process, whatever item it
\* popped and whichever step of the item failed; the step that reports the
\* failure after the last attempt takes the worker back to Idle; and an
\* idle worker can pop the next item whenever worker_queue holds one
C28_FailureKeepsWorkerRunning ==
    /\ [][\A p \in Procs :
             /\ Running(p) => IsRunning(wk', p)
             /\ (wk[p].pc = "Except" /\ LastAttempt(wk[p].i) /\ wk'[p] # wk[p])
                   => wk'[p].pc = "Idle"]_vars
    /\ [](\A p \in Procs :
             (wk[p].pc = "Idle" /\ queues["worker_queue"] # <<>>)
                 => ENABLED WorkerDequeue(p))

(***************************************************************************)
(* Claims about start-up                                                   *)
(***************************************************************************)
\* the worker part of C29: without a valid workspace no worker process
\* reaches the loop over worker_node, and none pops from worker_queue
NoPopWithoutWorkspace ==
    ~config.workspace_valid =>
        \A p \in Procs : wk[p].pc \in {"NoProc", "Main", "Exited"} /\ hist[p].popped = <<>>

\* C29: a worker process without a valid workspace never pops from
\* worker_queue, and a supervisor whose Redis server cannot be reached runs
\* no pass of its control loop
C29_RefusesToStartDegraded ==
    /\ []NoPopWithoutWorkspace
    /\ [][~config.redis_reachable => ~Tick]_vars

(***************************************************************************)
(* Claims about run_tool                                                   *)
(***************************************************************************)
\* C30: a call of run_tool with a tool name outside the allowlist returns
\* the denial (rc 1, DENIED) and changes no queue, no task, nothing in the
\* memory store, and runs no external command
C30_UnlistedToolDenied ==
    [][last_tool' \notin ALLOWED_TOOLS =>
          /\ tool_result' = [rc |-> 1, out |-> "DENIED"]
          /\ UNCHANGED <<queues, enqLog, deqLog, tasks, UM, commands>>]_vars

\* C30 witness: a tool outside the allowlist has just been denied while the
\* queue, the Task Store and the memory store hold entries and a command
\* has been run before
C30_Witness ==
    /\ last_tool \notin ALLOWED_TOOLS
    /\ tool_result = [rc |-> 1, out |-> "DENIED"]
    /\ queues["worker_queue"] # <<>>
    /\ tasks # EmptyObj
    /\ UM # EmptyObj
    /\ commands # <<>>

(***************************************************************************)
(* Claims about the order of the orchestrator's steps                      *)
(***************************************************************************)
\* the sub-tasks of the state all have their work item pushed on worker_queue
AllSubTasksEnqueued ==
    \A n \in 1..Len(state.sub_tasks) :
        \E m \in 1..Len(enqLog["worker_queue"]) :
            enqLog["worker_queue"][m].data = JsonDumps(WorkItem(state.sub_tasks[n]))

\* the edges of the graph: plan, research, pm, then monitor until END
GraphOrder ==
    /\ node = "plan" => node' \in {"plan", "research"}
    /\ node = "research" => node' \in {"research", "pm"}
    /\ node = "pm" => node' \in {"pm", "monitor", "Raised"}
    /\ node \in {"monitor", "should_iterate"} => node' \in {"monitor", "should_iterate", "END"}
    /\ node \in {"END", "Raised"} => node' = node

\* from the first monitor step on nothing is pushed on worker_queue
NoPushAfterMonitor ==
    node \in {"monitor", "should_iterate", "END"} =>
        Len(enqLog'["worker_queue"]) = Len(enqLog["worker_queue"])

\* C31: the orchestrator's steps run in the order plan, (research,) pm with
\* its pushes, monitor: no monitor step has run while the graph is at or
\* before pm, at every monitor step every sub-task of the state is on
\* worker_queue's push log, and from the first monitor step on only monitor
\* steps or END follow and nothing more is pushed on worker_queue
C31_PlanDecomposeEnqueueMonitor ==
    /\ [](node \in {"plan", "research", "pm", "Raised"} => monitor_passes = 0)
    /\ [](node \in {"monitor", "should_iterate", "END"} => AllSubTasksEnqueued)
    /\ [][GraphOrder]_vars
    /\ [][NoPushAfterMonitor]_vars

\* C31 witness: the graph has ended after two sub-tasks were pushed and
\* more than one monitor step has run
C31_Witness ==
    /\ node = "END"
    /\ Len(state.sub_tasks) = 2
    /\ monitor_passes >= 2
    /\ Len(enqLog["worker_queue"]) = 2

(***************************************************************************)
(* Claims about spawn_worker's answer                                      *)
(***************************************************************************)
\* spawn_worker has started process p in this step
Started(p) == wk[p].pc = "NoProc" /\ wk'[p].pc # "NoProc"

\* C32: when spawn_worker has started a process, its answer's worker_id and
\* pid are those of a record of the worker listing right after the call,
\* and that record's status is active
C32_SpawnedWorkerListed ==
    [][\A p \in Procs : Started(p) =>
          /\ spawn_worker_response.pid = p
          /\ [id |-> spawn_worker_response.worker_id, pid |-> spawn_worker_response.pid,
              status |-> "active"] \in get_workers(wk', worker_processes')]_vars

\* C32 witness: the endpoint has answered a spawn with 200 and the listing
\* shows that worker as active next to another worker
C32_Witness ==
    /\ api_response.op = "spawn_worker"
    /\ api_response.code = 200
    /\ \E rec \in get_workers(wk, worker_processes) :
          rec.id = api_response.worker_id /\ rec.status = "active"
    /\ pool_size >= 2

(***************************************************************************)
(* Claims about the worker's attempts                                      *)
(***************************************************************************)
\* worker p pushes a result with this status in the step
PushesResult(p, status) ==
    /\ Len(hist'[p].pushed) = Len(hist[p].pushed) + 1
    /\ Last(hist'[p].pushed).data.status = status

\* worker p calls the coder in the step
CallsCoder(p) == hist'[p].calls = hist[p].calls + 1

\* C33: a success result is pushed by the first attempt that did not fail
\* (all attempts before it failed), carries the patch of that attempt, a
\* patch that applied, and ends the work on the item: the worker returns to
\* Idle and calls the coder only while no result is pushed for the item; a
\* failed result is pushed only by the third attempt, after three failures,
\* and carries that attempt's error
C33_StopsAtFirstSuccess ==
    [][\A p \in Procs :
          /\ PushesResult(p, "success") =>
                /\ Last(hist'[p].pushed).data.patch = wk[p].patch
                /\ ~ContainsFAIL(apply_patch(wk[p].patch))
                /\ hist[p].fails = wk[p].i
                /\ hist[p].calls = wk[p].i + 1
                /\ wk'[p].pc = "Idle"
          /\ PushesResult(p, "failed") =>
                /\ wk[p].i = RetryRange - 1
                /\ hist[p].calls = RetryRange
                /\ hist'[p].fails = RetryRange
                /\ Last(hist'[p].pushed).data.error = wk[p].e
                /\ wk'[p].pc = "Idle"
          /\ CallsCoder(p) => ResultsFor(p, CurrentUid(p)) = {}]_vars

\* C33 witness: a worker is back at Idle, its second attempt has succeeded
\* after a failed first one and its success result is pushed
C33_Witness ==
    \E p \in Procs :
        /\ wk[p].pc = "Idle"
        /\ hist[p].calls = 2
        /\ hist[p].fails = 1
        /\ hist[p].pushed # <<>>
        /\ Last(hist[p].pushed).data.status = "success"
        /\ Last(hist[p].pushed).data.patch = "diff_ok"

\* no step changes the locals or the history (pops, pushes, coder calls) of
\* a worker that is Idle in front of an empty worker_queue
EmptyPopKeepsIdle ==
    \A p \in Procs :
        (wk[p].pc = "Idle" /\ queues["worker_queue"] = <<>>) =>
            /\ wk'[p] = wk[p]
            /\ hist'[p] = hist[p]

\* C34: while a worker is Idle and worker_queue is empty, its pop times out
\* and it stays Idle: that step is possible, and no step changes the
\* worker's locals, makes it check out, call the coder, apply or commit, or
\* makes it pop or push anything
C34_EmptyPopStaysIdle ==
    /\ [][EmptyPopKeepsIdle]_vars
    /\ [](\A p \in Procs :
             (wk[p].pc = "Idle" /\ queues["worker_queue"] = <<>>) => ENABLED WorkerIdle(p))

\* C34 witness: a worker that has worked on an item is Idle again in front
\* of an empty worker_queue
C34_Witness ==
    \E p \in Procs :
        /\ wk[p].pc = "Idle"
        /\ queues["worker_queue"] = <<>>
        /\ hist[p].popped # <<>>
        /\ hist[p].pushed # <<>>
        /\ ENABLED WorkerIdle(p)

(***************************************************************************)
(* Claims about the order of the worker's steps                            *)
(***************************************************************************)
\* the moves of a worker from one step to the next
WorkerEdges ==
    {<<"Idle", "Checkout">>, <<"Idle", "Exited">>, <<"Checkout", "Coder">>,
     <<"Coder", "Apply">>, <<"Coder", "Except">>, <<"Apply", "Commit">>,
     <<"Apply", "Except">>, <<"Commit", "Report">>, <<"Report", "Idle">>,
     <<"Except", "Coder">>, <<"Except", "Idle">>}

\* the external apply of this patch failed
ApplyFailed(patch) == apply_patch(patch) = "APPLY_FAIL"

\* C35: a worker's steps for an item follow the order pop, checkout, coder
\* call, apply, commit, push: the pop is the step that leaves Idle; the
\* commit is reached only from an apply that did not fail, and an attempt
\* whose apply failed goes to its failure handler; the success result is
\* pushed only by the step that follows the commit
C35_WorkerStepOrder ==
    [][\A p \in Procs :
          /\ wk'[p].pc # wk[p].pc => <<wk[p].pc, wk'[p].pc>> \in WorkerEdges
          /\ Len(hist'[p].popped) > Len(hist[p].popped) => wk[p].pc = "Idle"
          /\ CallsCoder(p) => wk[p].pc = "Coder"
          /\ wk[p].pc = "Apply" /\ wk'[p].pc = "Commit" => ~ApplyFailed(wk[p].patch)
          /\ wk[p].pc = "Apply" /\ ApplyFailed(wk[p].patch) => wk'[p].pc \in {"Apply", "Except"}
          /\ wk[p].pc \in {"Commit", "Report"} => ~ApplyFailed(wk[p].patch)
          /\ PushesResult(p, "success") => wk[p].pc = "Report"]_vars

\* C35 witness: in its second attempt, after a first attempt whose apply
\* failed, a worker has committed and is about to push the success result
C35_Witness ==
    \E p \in Procs :
        /\ wk[p].pc = "Report"
        /\ wk[p].i = 1
        /\ hist[p].fails = 1
        /\ ~ApplyFailed(wk[p].patch)

(***************************************************************************)
(* Claims about the registry and the health table                          *)
(***************************************************************************)
\* C36: every worker process that was spawned and is still alive is the
\* process of a record of the worker registry: no spawn replaces the record
\* of a live worker, so no process runs untracked
C36_EveryLiveWorkerTracked ==
    \A p \in Procs :
        Running(p) => \E w \in DOMAIN worker_processes : worker_processes[w].process = p

\* C37: at most one thread is inside monitor_queues at any time, whatever
\* calls of start_monitoring and stop_monitoring have been made
C37_OneControlLoopThread == Cardinality(LiveThreads) <= 1

\* C38: every worker id that has a health record is in the registry, so a
\* worker spawned later under that id starts without a health record
C38_HealthOnlyForRegistered == DOMAIN worker_health \subseteq DOMAIN worker_processes

(***************************************************************************)
(* Claims about the TaskMaster bridge                                      *)
(***************************************************************************)
\* a step in which main_loop hands tid to a new thread (lines 57-59)
Launches(tid) ==
    /\ tid \in DOMAIN active'
    /\ active'[tid].pc = "Start"
    /\ tid \in DOMAIN active => active[tid].pc # "Start"

\* a status step of tid is the first RUNNING, or RUNNING to DONE or ERROR
StatusMovesForward(tid) ==
    tid \in DOMAIN tm_status' =>
        IF tid \in DOMAIN tm_status
        THEN \/ tm_status'[tid] = tm_status[tid]
             \/ tm_status[tid] = "RUNNING" /\ tm_status'[tid] \in {"DONE", "ERROR"}
        ELSE tm_status'[tid] = "RUNNING"

LaunchedOnce ==
    \A tid \in 1..MaxTmTasks :
        /\ Launches(tid) =>
              /\ tid \notin launches
              /\ ~Completed(tid)
              /\ tid \notin AliveThreads
        /\ StatusMovesForward(tid)

\* C39: the bridge launches every queued task id at most once: a launch is
\* of a task that was never launched, is not DONE or ERROR and has no running
\* thread; and a task's status only moves RUNNING -> DONE or RUNNING -> ERROR
C39_LaunchedAtMostOnce == [][LaunchedOnce]_vars

\* tid is on the queue file
Queued(tid) == \E i \in 1..Len(tm_queue) : tm_queue[i] = tid

\* C40: at no time are more than MAX_PARALLEL task threads alive, whatever
\* the queue length and the number of turns of the loop, and every task that
\* is queued is launched at some later time, when threads have ended
C40_ParallelCapAndProgress ==
    /\ [](Cardinality(AliveThreads) <= MAX_PARALLEL)
    /\ \A tid \in 1..MaxTmTasks : Queued(tid) ~> (tid \in launches)

\* the cap is reached with more tasks launched than the cap: one had to wait
C40_Witness ==
    /\ Cardinality(AliveThreads) = MAX_PARALLEL
    /\ Cardinality(launches) > MAX_PARALLEL

====
